---- MODULE Spec2Model ----
(***************************************************************************)
(* Expense tracker: the expenses and users tables as the SQL statements of *)
(* the models read and write them, and the Expense and Auth controllers    *)
(* on top of them.                                                         *)
(*                                                                         *)
(* Representation.  Strings are sequences of one-character strings.  An    *)
(* amount is an integer number of hundredths.  A date is the integer       *)
(* yyyymmdd.  Python's None / an absent identifier is 0 for identifiers    *)
(* and dates, <<>> for an optional string (a present one is <<s>>).        *)
(***************************************************************************)
EXTENDS Integers, Sequences, FiniteSets, TLC

VARIABLES expenses,       \* the expenses table: expense_id -> row
          nextExpenseId,  \* its AUTO_INCREMENT counter
          users,          \* the users table: user_id -> row
          nextUserId,     \* its AUTO_INCREMENT counter
          currentUser,    \* the current user of the running application:
                          \* AuthController._current_user, and
                          \* App.current_user of the mobile screens
          call,           \* the controller call just served, with its arguments
          ret,            \* what that call returned
          dbFault,        \* the condition of the database for the next statement
          sessions,       \* the application processes sharing the database
          budgets,        \* the budgets table: id -> row
          checkedOut,     \* the pool's connections not given back
          store           \* the mobile JsonStore's 'user' entry

vars == <<expenses, nextExpenseId, users, nextUserId, currentUser, call, ret,
          dbFault, sessions, budgets, checkedOut, store>>

expenseVars == <<expenses, nextExpenseId>>
authVars == <<users, nextUserId, currentUser>>
envVars == <<dbFault, sessions, budgets, checkedOut, store>>

(***************************************************************************)
(* Bounds of the model.                                                    *)
(***************************************************************************)
MaxExpenseId == 2
MaxUserId == 2

(***************************************************************************)
(* Characters and strings.                                                 *)
(***************************************************************************)
Lower == {"a","b","c","d","e","f","g","h","i","j","k","l","m",
          "n","o","p","q","r","s","t","u","v","w","x","y","z"}
Upper == {"A","B","C","D","E","F","G","H","I","J","K","L","M",
          "N","O","P","Q","R","S","T","U","V","W","X","Y","Z"}
Digit == {"0","1","2","3","4","5","6","7","8","9"}
Letter == Lower \cup Upper

DigitVal(c) ==
    CASE c = "0" -> 0 [] c = "1" -> 1 [] c = "2" -> 2 [] c = "3" -> 3
      [] c = "4" -> 4 [] c = "5" -> 5 [] c = "6" -> 6 [] c = "7" -> 7
      [] c = "8" -> 8 [] c = "9" -> 9

AllIn(s, cls) == \A i \in DOMAIN s : s[i] \in cls

RECURSIVE DigitsVal(_)
DigitsVal(s) ==
    IF s = <<>> THEN 0
    ELSE DigitsVal(SubSeq(s, 1, Len(s) - 1)) * 10 + DigitVal(s[Len(s)])

(***************************************************************************)
(* float(amount) of ExpenseController, in hundredths.  A number converts   *)
(* to itself; a string converts when it is an optionally signed decimal    *)
(* literal (at most two fraction digits are represented) and raises        *)
(* ValueError otherwise; None raises TypeError.                            *)
(***************************************************************************)
NumAmount(n) == [kind |-> "num", str |-> <<>>, num |-> n]
StrAmount(s) == [kind |-> "str", str |-> s, num |-> 0]
NoneAmount == [kind |-> "none", str |-> <<>>, num |-> 0]
AbsentAmount == [kind |-> "absent", str |-> <<>>, num |-> 0]

FloatOk(v) == [err |-> "", val |-> v]
FloatErr(e) == [err |-> e, val |-> 0]

ParseFloat(s) ==
    LET signed == Len(s) > 0 /\ s[1] \in {"-", "+"}
        sign == IF Len(s) > 0 /\ s[1] = "-" THEN -1 ELSE 1
        body == IF signed THEN Tail(s) ELSE s
        dots == {i \in DOMAIN body : body[i] = "."}
    IN IF dots = {}
       THEN IF body # <<>> /\ AllIn(body, Digit)
            THEN FloatOk(sign * DigitsVal(body) * 100)
            ELSE FloatErr("ValueError")
       ELSE IF Cardinality(dots) = 1
       THEN LET d == CHOOSE i \in dots : TRUE
                ip == SubSeq(body, 1, d - 1)
                fp == SubSeq(body, d + 1, Len(body))
                fv == IF Len(fp) = 1 THEN DigitVal(fp[1]) * 10 ELSE DigitsVal(fp)
            IN IF (ip # <<>> \/ fp # <<>>) /\ AllIn(ip, Digit)
                  /\ AllIn(fp, Digit) /\ Len(fp) <= 2
               THEN FloatOk(sign * (DigitsVal(ip) * 100 + fv))
               ELSE FloatErr("ValueError")
       ELSE FloatErr("ValueError")

ToFloat(a) ==
    CASE a.kind = "num" -> FloatOk(a.num)
      [] a.kind = "str" -> ParseFloat(a.str)
      [] OTHER -> FloatErr("TypeError")

\* Python truthiness of an amount argument.
AmountTruthy(a) ==
    CASE a.kind = "num" -> a.num # 0
      [] a.kind = "str" -> a.str # <<>>
      [] OTHER -> FALSE

(***************************************************************************)
(* Reference data and the values the presentation layers supply.           *)
(***************************************************************************)
NoId == 0
UserIds == {1, 2}
CallerIds == {NoId} \cup UserIds
CategoryIds == {1, 2}
NoDate == 0
Tea == <<"t","e","a">>
Bus == <<"B","u","s">>
NoteAB == <<"a","_","b">>

\* Result of DatabaseConnection.execute_query(fetch=False): the cursor's
\* lastrowid (the new identifier after INSERT, 0 after UPDATE and DELETE),
\* or None after a database error.
DbNone == -1

\* execute_query(query, params) with fetch=True: the rows fetched, or None
\* when no connection is obtained or the cursor or the statement raises.
NoneResult == [none |-> TRUE, rows |-> <<>>]
execute_query(rows) ==
    IF dbFault = "ok" THEN [none |-> FALSE, rows |-> rows] ELSE NoneResult

\* Python's `if result:` for a list of rows or None.
Truthy(result) == ~result.none /\ result.rows # <<>>

\* execute_query(query, params, fetch=False): commit and the cursor's
\* lastrowid, or None on the same failures, after which nothing is written.
execute_write(lastrowid) == IF dbFault = "ok" THEN lastrowid ELSE DbNone


(***************************************************************************)
(* DatabaseConnection.execute_query over the expenses table.  `expenses`   *)
(* maps each stored expense_id to its row; every statement below is the    *)
(* one statement its model method executes.                                *)
(***************************************************************************)
Opt(s) == <<s>>
NoneStr == <<>>
IsNone(o) == o = <<>>

ExpenseRow(u, c, a, d, dt, pm, n) ==
    [user_id |-> u, category_id |-> c, amount |-> a, description |-> d,
     expense_date |-> dt, payment_method |-> pm, notes |-> n]

NoExpense == [expense_id |-> NoId]
ExpenseObject(tbl, id) == [expense_id |-> id] @@ tbl[id]

\* The INSERT that leaves payment_method to the column default.
InsertExpenseDefaultPayment(tbl, id, row) ==
    (id :> [row EXCEPT !.payment_method = <<"C","a","s","h">>]) @@ tbl

\* INSERT INTO expenses (...) VALUES (...): AUTO_INCREMENT gives the row
\* the next identifier, which is the statement's lastrowid.
InsertExpense(tbl, id, row) == (id :> row) @@ tbl

\* Expense.get_by_id: SELECT ... WHERE e.expense_id = %s, and
\* AND e.user_id = %s only when user_id is truthy; JOIN categories.
get_by_id(tbl, expense_id, user_id) ==
    LET result ==
          execute_query(
            IF /\ expense_id \in DOMAIN tbl
               /\ tbl[expense_id].category_id \in CategoryIds
               /\ (user_id # NoId => tbl[expense_id].user_id = user_id)
            THEN <<ExpenseObject(tbl, expense_id)>>
            ELSE <<>>)
    IN IF Truthy(result) THEN result.rows[1] ELSE NoExpense

\* Expense.create: the INSERT through execute_query; `if expense_id:` gives
\* the new Expense, anything else None.
Expense_create(tbl, id, row) ==
    LET expense_id == execute_write(id)
    IN IF expense_id # DbNone /\ expense_id # 0
       THEN [expense_id |-> expense_id, tbl |-> InsertExpense(tbl, id, row)]
       ELSE [expense_id |-> NoId, tbl |-> tbl]

\* Keyword arguments of Expense.update; None leaves the column alone.
NoKwargs ==
    [category_id |-> NoId, amount |-> AbsentAmount, description |-> NoneStr,
     expense_date |-> NoDate, payment_method |-> NoneStr, notes |-> NoneStr]

UpdatesOf(kw) ==
    {f \in {"category_id", "amount", "description", "expense_date",
            "payment_method", "notes"} :
        CASE f = "category_id" -> kw.category_id # NoId
          [] f = "amount" -> kw.amount.kind \notin {"absent", "none"}
          [] f = "description" -> ~IsNone(kw.description)
          [] f = "expense_date" -> kw.expense_date # NoDate
          [] f = "payment_method" -> ~IsNone(kw.payment_method)
          [] f = "notes" -> ~IsNone(kw.notes)}

\* The update that writes notes even when none is supplied.
UpdatedRowNullingNotes(row, kw) ==
    [user_id |-> row.user_id,
     category_id |-> IF kw.category_id # NoId THEN kw.category_id
                     ELSE row.category_id,
     amount |-> IF kw.amount.kind \notin {"absent", "none"}
                THEN kw.amount.num ELSE row.amount,
     description |-> IF ~IsNone(kw.description) THEN kw.description[1]
                     ELSE row.description,
     expense_date |-> IF kw.expense_date # NoDate THEN kw.expense_date
                      ELSE row.expense_date,
     payment_method |-> IF ~IsNone(kw.payment_method)
                        THEN kw.payment_method[1] ELSE row.payment_method,
     notes |-> kw.notes]

UpdatedRow(row, kw) ==
    [user_id |-> row.user_id,
     category_id |-> IF kw.category_id # NoId THEN kw.category_id
                     ELSE row.category_id,
     amount |-> IF kw.amount.kind \notin {"absent", "none"}
                THEN kw.amount.num ELSE row.amount,
     description |-> IF ~IsNone(kw.description) THEN kw.description[1]
                     ELSE row.description,
     expense_date |-> IF kw.expense_date # NoDate THEN kw.expense_date
                      ELSE row.expense_date,
     payment_method |-> IF ~IsNone(kw.payment_method)
                        THEN kw.payment_method[1] ELSE row.payment_method,
     notes |-> IF ~IsNone(kw.notes) THEN kw.notes ELSE row.notes]

\* UPDATE expenses SET <updates> WHERE expense_id = %s
UpdateWhereId(tbl, expense_id, kw) ==
    [i \in DOMAIN tbl |->
        IF i = expense_id THEN UpdatedRow(tbl[i], kw) ELSE tbl[i]]

\* Expense.update: False when nothing is supplied, else `result is not
\* None` of the UPDATE, whose lastrowid is 0.
Expense_update(tbl, expense_id, kw) ==
    IF UpdatesOf(kw) = {}
    THEN [ok |-> FALSE, tbl |-> tbl]
    ELSE [ok |-> (execute_write(0) # DbNone),
          tbl |-> IF execute_write(0) # DbNone
                  THEN UpdateWhereId(tbl, expense_id, kw) ELSE tbl]

\* The DELETE without its ownership condition.
DeleteById(tbl, expense_id, user_id) ==
    [i \in {j \in DOMAIN tbl : j # expense_id} |-> tbl[i]]

\* DELETE FROM expenses WHERE expense_id = %s AND user_id = %s
DeleteWhereIdAndUser(tbl, expense_id, user_id) ==
    [i \in {j \in DOMAIN tbl :
                ~(j = expense_id /\ tbl[j].user_id = user_id)} |-> tbl[i]]

\* Expense.delete_by_id: `result is not None` of the DELETE, whose
\* lastrowid is 0 whether or not a row matched.
delete_by_id(tbl, expense_id, user_id) ==
    [ok |-> (execute_write(0) # DbNone),
     tbl |-> IF execute_write(0) # DbNone
             THEN DeleteWhereIdAndUser(tbl, expense_id, user_id) ELSE tbl]

(***************************************************************************)
(* The read queries of models/expense.py.  A query whose ORDER BY leaves   *)
(* ties open is the set of the row orders the database may return.         *)
(***************************************************************************)
UpperSeq == <<"A","B","C","D","E","F","G","H","I","J","K","L","M",
              "N","O","P","Q","R","S","T","U","V","W","X","Y","Z">>
LowerSeq == <<"a","b","c","d","e","f","g","h","i","j","k","l","m",
              "n","o","p","q","r","s","t","u","v","w","x","y","z">>
LowerOf(c) ==
    IF c \in Upper
    THEN LowerSeq[CHOOSE i \in DOMAIN UpperSeq : UpperSeq[i] = c]
    ELSE c

\* s LIKE p under the case-insensitive default collation: % matches any
\* run of characters, _ any one character, \ takes the next one literally.
RECURSIVE Like(_, _)
Like(s, p) ==
    IF p = <<>> THEN s = <<>>
    ELSE IF p[1] = "%"
    THEN \E k \in 0 .. Len(s) : Like(SubSeq(s, k + 1, Len(s)), Tail(p))
    ELSE IF p[1] = "\\" /\ Len(p) >= 2
    THEN s # <<>> /\ LowerOf(s[1]) = LowerOf(p[2])
         /\ Like(Tail(s), Tail(Tail(p)))
    ELSE s # <<>> /\ (p[1] = "_" \/ LowerOf(s[1]) = LowerOf(p[1]))
         /\ Like(Tail(s), Tail(p))

YearOf(d) == d \div 10000
MonthOf(d) == (d \div 100) % 100
DayOf(d) == d % 100

RECURSIVE SumAmount(_, _)
SumAmount(tbl, ids) ==
    IF ids = {} THEN 0
    ELSE LET i == CHOOSE k \in ids : TRUE
         IN tbl[i].amount + SumAmount(tbl, ids \ {i})

\* MAX(amount) without COALESCE: NULL over no rows.
MaxAmountNull(tbl, ids) ==
    IF ids = {} THEN DbNone
    ELSE LET i == CHOOSE k \in ids : \A m \in ids : tbl[k].amount >= tbl[m].amount
         IN tbl[i].amount

MaxAmount(tbl, ids) ==
    IF ids = {} THEN 0
    ELSE LET i == CHOOSE k \in ids : \A m \in ids : tbl[k].amount >= tbl[m].amount
         IN tbl[i].amount
MinAmount(tbl, ids) ==
    IF ids = {} THEN 0
    ELSE LET i == CHOOSE k \in ids : \A m \in ids : tbl[k].amount <= tbl[m].amount
         IN tbl[i].amount

\* AVG(amount) of a two-decimal column, in millionths: the quotient is
\* carried to four more decimals and rounded half up.
AvgAmount(tbl, ids) ==
    IF ids = {} THEN 0
    ELSE (2 * SumAmount(tbl, ids) * 10000 + Cardinality(ids))
            \div (2 * Cardinality(ids))

\* The WHERE clause without its user_id condition.
MatchingAnyUser(tbl, user_id, start_date, end_date, category_id) ==
    {i \in DOMAIN tbl :
        /\ (start_date # NoDate => tbl[i].expense_date >= start_date)
        /\ (end_date # NoDate => tbl[i].expense_date <= end_date)
        /\ (category_id # NoId => tbl[i].category_id = category_id)}

\* WHERE user_id = %s [AND expense_date >= %s] [AND expense_date <= %s]
\* [AND category_id = %s]: a falsy argument adds no condition.
Matching(tbl, user_id, start_date, end_date, category_id) ==
    {i \in DOMAIN tbl :
        /\ tbl[i].user_id = user_id
        /\ (start_date # NoDate => tbl[i].expense_date >= start_date)
        /\ (end_date # NoDate => tbl[i].expense_date <= end_date)
        /\ (category_id # NoId => tbl[i].category_id = category_id)}

\* The orders of the identifiers `ids` in which key[i] never increases
\* (ORDER BY key DESC) or never decreases (ORDER BY key): any of the
\* rows that may come first, followed by an order of the others.
RECURSIVE Orders(_, _, _)
Orders(ids, key, desc) ==
    IF ids = {} THEN {<<>>}
    ELSE LET firsts == {i \in ids : \A m \in ids :
                            IF desc THEN key[i] >= key[m]
                            ELSE key[i] <= key[m]}
         IN UNION {{<<i>> \o q : q \in Orders(ids \ {i}, key, desc)} :
                        i \in firsts}

\* SELECT COALESCE(SUM(amount), 0) ...; `if result: return result[0]['total']`,
\* else 0.0.
get_total_expenses(tbl, user_id, start_date, end_date, category_id) ==
    LET ids == Matching(tbl, user_id, start_date, end_date, category_id)
        result == execute_query(<<[total |-> SumAmount(tbl, ids)]>>)
    IN IF Truthy(result) THEN result.rows[1].total ELSE 0

\* The join without its condition on the end date.
CategoryTotalOpenEnded(tbl, user_id, start_date, end_date, c) ==
    LET ids == Matching(tbl, user_id, start_date, NoDate, c)
    IN [category_id |-> c, total |-> SumAmount(tbl, ids),
        count |-> Cardinality(ids)]

\* categories c LEFT JOIN expenses e ON c.category_id = e.category_id AND
\* e.user_id = %s [AND dates] GROUP BY c.category_id ORDER BY total DESC
CategoryTotal(tbl, user_id, start_date, end_date, c) ==
    LET ids == Matching(tbl, user_id, start_date, end_date, c)
    IN [category_id |-> c, total |-> SumAmount(tbl, ids),
        count |-> Cardinality(ids)]

\* The join written as an inner join: categories without a row drop out.
CategoryRowsInnerJoin(tbl, user_id, start_date, end_date) ==
    LET row(c) == CategoryTotal(tbl, user_id, start_date, end_date, c)
        cats == {c \in CategoryIds : row(c).count > 0}
        total == [c \in cats |-> row(c).total]
    IN {[k \in DOMAIN q |-> row(q[k])] : q \in Orders(cats, total, TRUE)}

\* The row sequences the category query may fetch.
CategoryRows(tbl, user_id, start_date, end_date) ==
    LET row(c) == CategoryTotal(tbl, user_id, start_date, end_date, c)
        total == [c \in CategoryIds |-> row(c).total]
    IN {[k \in DOMAIN q |-> row(q[k])] : q \in Orders(CategoryIds, total, TRUE)}

\* `return result if result else []`
get_category_totals(tbl, user_id, start_date, end_date) ==
    {LET result == execute_query(rows)
     IN IF Truthy(result) THEN result.rows ELSE <<>> :
        rows \in CategoryRows(tbl, user_id, start_date, end_date)}

\* GROUP BY MONTH(expense_date) for one user and year, ORDER BY month.
MonthlyRows(tbl, user_id, year) ==
    LET inYear == {i \in Matching(tbl, user_id, NoDate, NoDate, NoId) :
                     YearOf(tbl[i].expense_date) = year}
        months == {MonthOf(tbl[i].expense_date) : i \in inYear}
        row(m) == LET ids == {i \in inYear : MonthOf(tbl[i].expense_date) = m}
                  IN [month |-> m, total |-> SumAmount(tbl, ids),
                      count |-> Cardinality(ids)]
        month == [m \in months |-> m]
        q == CHOOSE o \in Orders(months, month, FALSE) : TRUE
    IN [k \in DOMAIN q |-> row(q[k])]

\* The rows fetched, without the fill of the missing months.
MonthlyDataUnfilled(result) ==
    IF Truthy(result) THEN result.rows ELSE <<>>

\* monthly_data = {i: zero row for i in 1..12}; each fetched row replaces
\* the entry of its month (a month outside 1..12 would be appended);
\* list(monthly_data.values()).
MonthlyData(result) ==
    LET rows == IF Truthy(result) THEN result.rows ELSE <<>>
        at(m) == {k \in DOMAIN rows : rows[k].month = m}
        filled == [m \in 1 .. 12 |->
                     IF at(m) = {}
                     THEN [month |-> m, total |-> 0, count |-> 0]
                     ELSE rows[CHOOSE k \in at(m) : \A n \in at(m) : k >= n]]
        extra == {k \in DOMAIN rows : rows[k].month \notin 1 .. 12}
        key == [k \in extra |-> k]
        q == CHOOSE o \in Orders(extra, key, FALSE) : TRUE
    IN filled \o [k \in DOMAIN q |-> rows[q[k]]]

get_monthly_totals(tbl, user_id, year) ==
    MonthlyData(execute_query(MonthlyRows(tbl, user_id, year)))

\* GROUP BY DAY(expense_date) for one user, year and month, ORDER BY day;
\* `return result if result else []`.
get_daily_totals(tbl, user_id, year, month) ==
    LET inMonth == {i \in Matching(tbl, user_id, NoDate, NoDate, NoId) :
                      /\ YearOf(tbl[i].expense_date) = year
                      /\ MonthOf(tbl[i].expense_date) = month}
        days == {DayOf(tbl[i].expense_date) : i \in inMonth}
        row(d) == LET ids == {i \in inMonth : DayOf(tbl[i].expense_date) = d}
                  IN [day |-> d, total |-> SumAmount(tbl, ids),
                      count |-> Cardinality(ids)]
        day == [d \in days |-> d]
    IN {LET result == execute_query([k \in DOMAIN q |-> row(q[k])])
        IN IF Truthy(result) THEN result.rows ELSE <<>> :
           q \in Orders(days, day, FALSE)}

\* The statistics with MAX and MIN exchanged.
StatsRowMinMaxSwapped(tbl, ids) ==
    [total |-> SumAmount(tbl, ids), average |-> AvgAmount(tbl, ids),
     max_expense |-> MinAmount(tbl, ids),
     min_expense |-> MaxAmount(tbl, ids), count |-> Cardinality(ids)]

\* SELECT COALESCE(SUM), COALESCE(AVG), COALESCE(MAX), COALESCE(MIN), COUNT(*)
StatsRow(tbl, ids) ==
    [total |-> SumAmount(tbl, ids), average |-> AvgAmount(tbl, ids),
     max_expense |-> MaxAmount(tbl, ids),
     min_expense |-> MinAmount(tbl, ids), count |-> Cardinality(ids)]

\* `if result: return result[0]`, else the dictionary of zeros.
get_expense_stats(tbl, user_id, start_date, end_date) ==
    LET ids == Matching(tbl, user_id, start_date, end_date, NoId)
        result == execute_query(<<StatsRow(tbl, ids)>>)
    IN IF Truthy(result) THEN result.rows[1]
       ELSE [total |-> 0, average |-> 0, max_expense |-> 0,
             min_expense |-> 0, count |-> 0]

\* JOIN categories ... ORDER BY e.expense_date DESC, e.created_at DESC
\* (rows of one date may share a creation second) [LIMIT n OFFSET k];
\* `[Expense(**data) for data in result]` if result, else [].
get_user_expenses(tbl, user_id, start_date, end_date, category_id, limit, offset) ==
    LET ids == {i \in Matching(tbl, user_id, start_date, end_date, category_id) :
                  tbl[i].category_id \in CategoryIds}
        date == [i \in ids |-> tbl[i].expense_date]
        page(q) == IF limit = 0 THEN q
                   ELSE SubSeq(q, offset + 1,
                               IF offset + limit < Len(q) THEN offset + limit
                               ELSE Len(q))
    IN {LET result ==
              execute_query(page([k \in DOMAIN q |-> ExpenseObject(tbl, q[k])]))
        IN IF Truthy(result) THEN result.rows ELSE <<>> :
           q \in Orders(ids, date, TRUE)}

\* WHERE e.user_id = %s AND (e.description LIKE %s OR e.notes LIKE %s)
\* ORDER BY e.expense_date DESC, with the pattern %term%.
search(tbl, user_id, search_term) ==
    LET pattern == <<"%">> \o search_term \o <<"%">>
        ids == {i \in Matching(tbl, user_id, NoDate, NoDate, NoId) :
                  /\ tbl[i].category_id \in CategoryIds
                  /\ \/ Like(tbl[i].description, pattern)
                     \/ (~IsNone(tbl[i].notes) /\ Like(tbl[i].notes[1], pattern))}
        date == [i \in ids |-> tbl[i].expense_date]
    IN {LET result ==
              execute_query([k \in DOMAIN q |-> ExpenseObject(tbl, q[k])])
        IN IF Truthy(result) THEN result.rows ELSE <<>> :
           q \in Orders(ids, date, TRUE)}

(***************************************************************************)
(* The budgets table and ExpenseController.get_category_budget.  `budgets` *)
(* maps each id to its row.                                                *)
(***************************************************************************)
BudgetRow(u, c, a, m) ==
    [user_id |-> u, category_id |-> c, amount |-> a, month |-> m]
Returned(v) == [raised |-> "", value |-> v]
Raised(e) == [raised |-> e, value |-> 0]

\* get_category_budget without `if not conn: return 0`.
get_category_budgetUnguarded(tbl, user_id, category_id) ==
    LET ids == {i \in DOMAIN tbl : /\ tbl[i].user_id = user_id
                                   /\ tbl[i].category_id = category_id}
        month == [i \in ids |-> tbl[i].month]
    IN IF dbFault = "no_connection"
       THEN {Raised("AttributeError")}
       ELSE IF dbFault = "cursor_error"
       THEN {Raised("UnboundLocalError")}
       ELSE IF dbFault = "statement_error"
       THEN {Returned(0)}
       ELSE {IF q = <<>> THEN Returned(0) ELSE Returned(tbl[q[1]].amount) :
                q \in Orders(ids, month, TRUE)}

\* get_category_budget: 0 without a connection; the cursor is created inside
\* the try block, whose handler returns 0 and whose finally clause closes
\* the cursor (unbound when its creation raised) and the connection;
\* otherwise the amount of the first row by month descending, or 0.
get_category_budget(tbl, user_id, category_id) ==
    LET ids == {i \in DOMAIN tbl : /\ tbl[i].user_id = user_id
                                   /\ tbl[i].category_id = category_id}
        month == [i \in ids |-> tbl[i].month]
    IN IF dbFault = "no_connection"
       THEN {Returned(0)}
       ELSE IF dbFault = "cursor_error"
       THEN {Raised("UnboundLocalError")}
       ELSE IF dbFault = "statement_error"
       THEN {Returned(0)}
       ELSE {IF q = <<>> THEN Returned(0) ELSE Returned(tbl[q[1]].amount) :
                q \in Orders(ids, month, TRUE)}

(***************************************************************************)
(* The connection pool.  get_connection hands out one of pool_size         *)
(* connections, or None when the database cannot be reached or the pool    *)
(* has none left; connection.close() gives the connection back.            *)
(***************************************************************************)
pool_size == 5

\* The connections a call obtains from get_connection.
Acquired == IF dbFault = "no_connection" THEN 0 ELSE 1

\* execute_query, execute_many, call_procedure: `finally: if cursor:
\* cursor.close(); if connection: connection.close()`.
execute_queryClosed == Acquired

\* set_category_budget, get_category_budget: `finally: cursor.close();
\* conn.close()`, where cursor.close() raises when conn.cursor() raised
\* and left the name unbound, so that conn.close() is not reached.
budgetClosed == IF dbFault = "cursor_error" THEN 0 ELSE Acquired

\* test_connection: connection.close() only inside `if connection and
\* connection.is_connected():`; a connection that cannot give a cursor is
\* one that is not connected.
test_connectionClosed ==
    IF dbFault \in {"ok", "statement_error"} THEN Acquired ELSE 0

\* The pool after a call that obtained and closed so many connections; with
\* every connection checked out get_connection returns None from then on.
Pool(acquired, closed) ==
    /\ checkedOut' = checkedOut + acquired - closed
    /\ dbFault' = IF checkedOut + acquired - closed >= pool_size
                  THEN "no_connection"
                  ELSE dbFault

\* The rows of one user and category.
BudgetIds(tbl, user_id, category_id) ==
    {i \in DOMAIN tbl : /\ tbl[i].user_id = user_id
                        /\ tbl[i].category_id = category_id}

\* UPDATE budgets SET amount = %s, month = %s WHERE user_id = %s AND
\* category_id = %s
UpdateBudgets(tbl, user_id, category_id, amount, month) ==
    [i \in DOMAIN tbl |->
        IF i \in BudgetIds(tbl, user_id, category_id)
        THEN [tbl[i] EXCEPT !.amount = amount, !.month = month]
        ELSE tbl[i]]

\* INSERT INTO budgets (user_id, category_id, amount, month)
InsertBudget(tbl, user_id, category_id, amount, month) ==
    Append(tbl, BudgetRow(user_id, category_id, amount, month))

\* A unique key on (user_id, category_id, month).
BudgetKeyDeclared(tbl, user_id, category_id, month) ==
    \E i \in DOMAIN tbl : /\ tbl[i].user_id = user_id
                           /\ tbl[i].category_id = category_id
                           /\ tbl[i].month = month

\* The budgets table has the columns id, user_id, category_id, amount and
\* month and enforces no unique key on them, so that no INSERT is refused
\* for the rows already stored.
BudgetKeyViolated(tbl, user_id, category_id, month) == FALSE

\* `if existing:` UPDATE, else INSERT, with `existing` as fetched before,
\* then commit and True; False from the except clause when the INSERT is
\* refused.
BudgetWrite(tbl, existing, user_id, category_id, amount, month) ==
    IF existing
    THEN [ret |-> Returned(TRUE),
          tbl |-> UpdateBudgets(tbl, user_id, category_id, amount, month)]
    ELSE IF BudgetKeyViolated(tbl, user_id, category_id, month)
    THEN [ret |-> Returned(FALSE), tbl |-> tbl]
    ELSE [ret |-> Returned(TRUE),
          tbl |-> InsertBudget(tbl, user_id, category_id, amount, month)]

\* set_category_budget that inserts a row whatever is stored.
set_category_budgetInserting(tbl, user_id, category_id, amount, month) ==
    IF dbFault = "no_connection"
    THEN [ret |-> Returned(FALSE), tbl |-> tbl]
    ELSE IF dbFault = "cursor_error"
    THEN [ret |-> Raised("UnboundLocalError"), tbl |-> tbl]
    ELSE IF dbFault = "statement_error"
    THEN [ret |-> Returned(FALSE), tbl |-> tbl]
    ELSE [ret |-> Returned(TRUE),
          tbl |-> InsertBudget(tbl, user_id, category_id, amount, month)]

\* set_category_budget: False without a connection; the cursor is created
\* inside the try block, whose handler returns False and whose finally
\* clause closes the cursor (unbound when its creation raised) and the
\* connection; otherwise SELECT id ... fetchone, UPDATE or INSERT with the
\* first day of the current month, commit, True.
set_category_budget(tbl, user_id, category_id, amount, month) ==
    IF dbFault = "no_connection"
    THEN [ret |-> Returned(FALSE), tbl |-> tbl]
    ELSE IF dbFault = "cursor_error"
    THEN [ret |-> Raised("UnboundLocalError"), tbl |-> tbl]
    ELSE IF dbFault = "statement_error"
    THEN [ret |-> Returned(FALSE), tbl |-> tbl]
    ELSE BudgetWrite(tbl, BudgetIds(tbl, user_id, category_id) # {},
                     user_id, category_id, amount, month)

(***************************************************************************)
(* ExpenseController.                                                      *)
(***************************************************************************)
SetCategoryBudget(user_id, category_id, amount, month) ==
    LET out == set_category_budget(budgets, user_id, category_id, amount,
                                   month)
    IN /\ call' = [op |-> "set_category_budget", user_id |-> user_id,
                   category_id |-> category_id, amount |-> amount,
                   month |-> month]
       /\ ret' = out.ret
       /\ budgets' = out.tbl
       /\ Pool(Acquired, budgetClosed)
       /\ UNCHANGED <<expenseVars, authVars, sessions, store>>

Ret(ok, msg, id) == [ok |-> ok, msg |-> msg, id |-> id]

\* all([user_id, category_id, amount, description, expense_date])
AllRequired(user_id, category_id, amount, description, expense_date) ==
    /\ user_id # NoId
    /\ category_id # NoId
    /\ AmountTruthy(amount)
    /\ ~IsNone(description) /\ description[1] # <<>>
    /\ expense_date # NoDate

\* The validation that compares the amount with < instead of <=.
AddRejectionStrict(user_id, category_id, amount, description, expense_date) ==
    IF ~AllRequired(user_id, category_id, amount, description, expense_date)
    THEN "Please fill all required fields"
    ELSE IF ToFloat(amount).err = "ValueError" THEN "Invalid amount"
    ELSE IF ToFloat(amount).val < 0 THEN "Amount must be greater than 0"
    ELSE ""

\* The validation of add_expense: "" when the call goes on to Expense.create.
AddRejection(user_id, category_id, amount, description, expense_date) ==
    IF ~AllRequired(user_id, category_id, amount, description, expense_date)
    THEN "Please fill all required fields"
    ELSE IF ToFloat(amount).err = "ValueError" THEN "Invalid amount"
    ELSE IF ToFloat(amount).val <= 0 THEN "Amount must be greater than 0"
    ELSE ""

AddExpense(user_id, category_id, amount, description, expense_date, payment_method, notes) ==
    LET rej == AddRejection(user_id, category_id, amount, description,
                            expense_date)
    IN /\ call' = [op |-> "add", user_id |-> user_id,
                   category_id |-> category_id, amount |-> amount,
                   description |-> description, expense_date |-> expense_date,
                   payment_method |-> payment_method, notes |-> notes]
       /\ IF rej # ""
          THEN /\ ret' = Ret(FALSE, rej, NoId)
               /\ UNCHANGED <<expenseVars, authVars>>
          ELSE
            LET made == Expense_create(expenses, nextExpenseId,
                              ExpenseRow(user_id, category_id,
                                         ToFloat(amount).val, description[1],
                                         expense_date, payment_method, notes))
            IN IF made.expense_id # NoId
               THEN /\ nextExpenseId <= MaxExpenseId
                    /\ expenses' = made.tbl
                    /\ nextExpenseId' = nextExpenseId + 1
                    /\ ret' = Ret(TRUE, "Expense added successfully!",
                                  made.expense_id)
                    /\ UNCHANGED authVars
               ELSE /\ ret' = Ret(FALSE, "Failed to add expense", NoId)
                    /\ UNCHANGED <<expenseVars, authVars>>

\* The amount check that converts the amount and forgets its sign.
UpdateRejectionUnsigned(kw) ==
    IF kw.amount.kind = "absent" THEN ""
    ELSE IF ToFloat(kw.amount).err # "" THEN
        IF ToFloat(kw.amount).err = "ValueError" THEN "Invalid amount"
        ELSE "raise TypeError"
    ELSE ""

\* The amount check of update_expense: "" when the call goes on to update.
UpdateRejection(kw) ==
    IF kw.amount.kind = "absent" THEN ""
    ELSE IF ToFloat(kw.amount).err # "" THEN
        IF ToFloat(kw.amount).err = "ValueError" THEN "Invalid amount"
        ELSE "raise TypeError"
    ELSE IF ToFloat(kw.amount).val <= 0 THEN "Amount must be greater than 0"
    ELSE ""

\* kwargs['amount'] = float(kwargs['amount'])
FloatedKwargs(kw) ==
    IF kw.amount.kind = "absent" THEN kw
    ELSE [kw EXCEPT !.amount = NumAmount(ToFloat(kw.amount).val)]

UpdateExpense(expense_id, user_id, kw) ==
    LET expense == get_by_id(expenses, expense_id, user_id)
        rej == UpdateRejection(kw)
        upd == Expense_update(expenses, expense.expense_id, FloatedKwargs(kw))
    IN /\ UNCHANGED <<nextExpenseId, authVars>>
       /\ call' = [op |-> "update", expense_id |-> expense_id,
                   user_id |-> user_id, kwargs |-> kw]
       /\ IF expense = NoExpense
          THEN /\ ret' = Ret(FALSE, "Expense not found", NoId)
               /\ UNCHANGED expenses
          ELSE IF rej # ""
          THEN /\ ret' = Ret(FALSE, rej, NoId)
               /\ UNCHANGED expenses
          ELSE /\ expenses' = upd.tbl
               /\ ret' = IF upd.ok
                         THEN Ret(TRUE, "Expense updated successfully!", NoId)
                         ELSE Ret(FALSE, "Failed to update expense", NoId)

DeleteExpense(expense_id, user_id) ==
    LET del == delete_by_id(expenses, expense_id, user_id)
    IN /\ expenses' = del.tbl
       /\ call' = [op |-> "delete", expense_id |-> expense_id,
                   user_id |-> user_id]
       /\ ret' = IF del.ok
                 THEN Ret(TRUE, "Expense deleted successfully!", NoId)
                 ELSE Ret(FALSE, "Failed to delete expense", NoId)
       /\ UNCHANGED <<nextExpenseId, authVars>>


(***************************************************************************)
(* utils/helpers.py: the validators and the password hash.                 *)
(***************************************************************************)
WordChar == Letter \cup Digit \cup {"_"}
EmailLocalChar == Letter \cup Digit \cup {".", "_", "%", "+", "-"}
EmailDomainChar == Letter \cup Digit \cup {".", "-"}

\* What a pattern ending in `$` may take as the whole text: the string, or
\* the string without its final newline.
BeforeDollar(s) ==
    {s} \cup (IF s # <<>> /\ s[Len(s)] = "\n"
              THEN {SubSeq(s, 1, Len(s) - 1)} ELSE {})

\* ^[a-zA-Z0-9_]{3,20}$
validate_username(username) ==
    \E t \in BeforeDollar(username) :
        Len(t) >= 3 /\ Len(t) <= 20 /\ AllIn(t, WordChar)

\* ^[a-zA-Z0-9._%+-]+@[a-zA-Z0-9.-]+\.[a-zA-Z]{2,}$
validate_email(email) ==
    \E t \in BeforeDollar(email) :
        \E i \in DOMAIN t : \E j \in DOMAIN t :
            /\ i < j
            /\ t[i] = "@" /\ t[j] = "."
            /\ i > 1 /\ AllIn(SubSeq(t, 1, i - 1), EmailLocalChar)
            /\ j > i + 1 /\ AllIn(SubSeq(t, i + 1, j - 1), EmailDomainChar)
            /\ Len(t) - j >= 2 /\ AllIn(SubSeq(t, j + 1, Len(t)), Letter)

\* validate_password: "" stands for (True, "Password is valid").
validate_password(password) ==
    IF Len(password) < 6 THEN "Password must be at least 6 characters"
    ELSE IF ~\E i \in DOMAIN password : password[i] \in Letter
    THEN "Password must contain at least one letter"
    ELSE IF ~\E i \in DOMAIN password : password[i] \in Digit
    THEN "Password must contain at least one number"
    ELSE ""

\* hashlib.sha256(password).hexdigest(): a digest is not the password and
\* distinct passwords of the model have distinct digests.
hash_password(password) == <<"#">> \o password
verify_password(password, hashed) == hash_password(password) = hashed

(***************************************************************************)
(* models/user.py over the users table: `users` maps each user_id to its   *)
(* row.                                                                    *)
(***************************************************************************)
NoUser == [user_id |-> NoId]
UserObject(id, username, email, full_name) ==
    [user_id |-> id, username |-> username, email |-> email,
     full_name |-> full_name]

\* User.exists: the username is looked up first, then the email.
User_exists(tbl, username, email) ==
    IF username # <<>> /\ \E i \in DOMAIN tbl : tbl[i].username = username
    THEN "username"
    ELSE IF email # <<>> /\ \E i \in DOMAIN tbl : tbl[i].email = email
    THEN "email"
    ELSE ""

\* User.create: INSERT INTO users (username, email, password, full_name);
\* is_active takes the column default.
InsertUser(tbl, id, username, email, password, full_name) ==
    (id :> [username |-> username, email |-> email,
            password |-> hash_password(password), full_name |-> full_name,
            is_active |-> TRUE]) @@ tbl

\* The lookup without its is_active condition.
User_authenticateAnyStatus(tbl, username, password) ==
    LET found == {i \in DOMAIN tbl :
                    tbl[i].username = username \/ tbl[i].email = username}
    IN IF found = {} THEN NoUser
       ELSE LET i == CHOOSE k \in found : \A m \in found : k <= m
            IN IF verify_password(password, tbl[i].password)
               THEN UserObject(i, tbl[i].username, tbl[i].email,
                               tbl[i].full_name)
               ELSE NoUser

\* User.authenticate: the first active row whose username or email is the
\* given name, if the password verifies against its hash.
User_authenticate(tbl, username, password) ==
    LET found == {i \in DOMAIN tbl :
                    /\ (tbl[i].username = username \/ tbl[i].email = username)
                    /\ tbl[i].is_active}
    IN IF found = {} THEN NoUser
       ELSE LET i == CHOOSE k \in found : \A m \in found : k <= m
            IN IF verify_password(password, tbl[i].password)
               THEN UserObject(i, tbl[i].username, tbl[i].email,
                               tbl[i].full_name)
               ELSE NoUser

\* The UNIQUE keys of the users table on username and on email: a row `id`
\* with these values would share one of them with another row, and the
\* statement that writes it raises a duplicate-key error.
UniqueKeysNotDeclared(tbl, id, username, email) == FALSE

UniqueKeyViolated(tbl, id, username, email) ==
    \E i \in DOMAIN tbl :
        i # id /\ (tbl[i].username = username \/ tbl[i].email = email)

\* User.create: execute_query returns the new user_id, or None when the
\* INSERT raises, and then no User is returned.
User_create(tbl, id, username, email, password, full_name) ==
    IF UniqueKeyViolated(tbl, id, username, email)
    THEN [user |-> NoUser, tbl |-> tbl]
    ELSE [user |-> UserObject(id, username, email, full_name),
          tbl |-> InsertUser(tbl, id, username, email, password, full_name)]

\* User.update: SET clauses for the truthy arguments only, False without
\* any; UPDATE ... WHERE user_id = %s, False when the statement raises.
User_update(tbl, user_id, full_name, email) ==
    IF full_name = <<>> /\ email = <<>>
    THEN [ok |-> FALSE, tbl |-> tbl]
    ELSE IF user_id \notin DOMAIN tbl
    THEN [ok |-> TRUE, tbl |-> tbl]
    ELSE IF email # <<>>
            /\ UniqueKeyViolated(tbl, user_id, tbl[user_id].username, email)
    THEN [ok |-> FALSE, tbl |-> tbl]
    ELSE [ok |-> TRUE,
          tbl |-> [tbl EXCEPT
                     ![user_id].full_name =
                         IF full_name # <<>> THEN full_name ELSE @,
                     ![user_id].email = IF email # <<>> THEN email ELSE @]]

(***************************************************************************)
(* AuthController.                                                         *)
(***************************************************************************)
\* The checks with the confirmation compared before the password policy.
RegisterRejectionConfirmFirst(tbl, username, email, password, confirm_password, full_name) ==
    IF <<>> \in {username, email, password, confirm_password, full_name}
    THEN "All fields are required"
    ELSE IF ~validate_username(username)
    THEN "Username must be 3-20 characters (letters, numbers, underscore)"
    ELSE IF ~validate_email(email)
    THEN "Please enter a valid email address"
    ELSE IF password # confirm_password
    THEN "Passwords do not match"
    ELSE IF validate_password(password) # ""
    THEN validate_password(password)
    ELSE IF User_exists(tbl, username, email) = "username"
    THEN "Username already taken"
    ELSE IF User_exists(tbl, username, email) = "email"
    THEN "Email already registered"
    ELSE ""

\* The checks with one message for both duplicates.
RegisterRejectionOneDuplicateMessage(tbl, username, email, password, confirm_password, full_name) ==
    IF <<>> \in {username, email, password, confirm_password, full_name}
    THEN "All fields are required"
    ELSE IF ~validate_username(username)
    THEN "Username must be 3-20 characters (letters, numbers, underscore)"
    ELSE IF ~validate_email(email)
    THEN "Please enter a valid email address"
    ELSE IF validate_password(password) # ""
    THEN validate_password(password)
    ELSE IF password # confirm_password
    THEN "Passwords do not match"
    ELSE IF User_exists(tbl, username, email) # ""
    THEN "Username already taken"
    ELSE ""

\* The checks of register in the order the code makes them: "" when the
\* call goes on to User.create.
RegisterRejection(tbl, username, email, password, confirm_password, full_name) ==
    IF <<>> \in {username, email, password, confirm_password, full_name}
    THEN "All fields are required"
    ELSE IF ~validate_username(username)
    THEN "Username must be 3-20 characters (letters, numbers, underscore)"
    ELSE IF ~validate_email(email)
    THEN "Please enter a valid email address"
    ELSE IF validate_password(password) # ""
    THEN validate_password(password)
    ELSE IF password # confirm_password
    THEN "Passwords do not match"
    ELSE IF User_exists(tbl, username, email) = "username"
    THEN "Username already taken"
    ELSE IF User_exists(tbl, username, email) = "email"
    THEN "Email already registered"
    ELSE ""

Register(username, email, password, confirm_password, full_name) ==
    LET rej == RegisterRejection(users, username, email, password,
                                 confirm_password, full_name)
    IN /\ UNCHANGED expenseVars
       /\ call' = [op |-> "register", username |-> username, email |-> email,
                   password |-> password,
                   confirm_password |-> confirm_password,
                   full_name |-> full_name]
       /\ IF rej # ""
          THEN /\ ret' = Ret(FALSE, rej, NoId)
               /\ UNCHANGED authVars
          ELSE /\ nextUserId <= MaxUserId
               /\ users' = InsertUser(users, nextUserId, username, email,
                                      password, full_name)
               /\ nextUserId' = nextUserId + 1
               /\ currentUser' = UserObject(nextUserId, username, email,
                                            full_name)
               /\ ret' = Ret(TRUE, "Registration successful! Welcome!",
                             nextUserId)

\* login that tells an unknown name from a wrong password.
LoginOutcomeNamingUnknown(tbl, cur, username, password) ==
    LET user == User_authenticate(tbl, username, password)
    IN IF username = <<>> \/ password = <<>>
       THEN [ret |-> Ret(FALSE, "Please enter username and password", NoId),
             user |-> cur]
       ELSE IF user # NoUser
       THEN [ret |-> Ret(TRUE, "Welcome back", user.user_id), user |-> user]
       ELSE IF \E i \in DOMAIN tbl :
                   tbl[i].username = username \/ tbl[i].email = username
       THEN [ret |-> Ret(FALSE, "Invalid username or password", NoId),
             user |-> cur]
       ELSE [ret |-> Ret(FALSE, "Unknown username", NoId), user |-> cur]

\* login that forgets the current user when it fails.
LoginOutcomeClearing(tbl, cur, username, password) ==
    LET user == User_authenticate(tbl, username, password)
    IN IF username = <<>> \/ password = <<>>
       THEN [ret |-> Ret(FALSE, "Please enter username and password", NoId),
             user |-> cur]
       ELSE IF user # NoUser
       THEN [ret |-> Ret(TRUE, "Welcome back", user.user_id), user |-> user]
       ELSE [ret |-> Ret(FALSE, "Invalid username or password", NoId),
             user |-> NoUser]

\* What login returns and the current user it leaves, given the users table
\* and the current user before the call.
LoginOutcome(tbl, cur, username, password) ==
    LET user == User_authenticate(tbl, username, password)
    IN IF username = <<>> \/ password = <<>>
       THEN [ret |-> Ret(FALSE, "Please enter username and password", NoId),
             user |-> cur]
       ELSE IF user # NoUser
       THEN [ret |-> Ret(TRUE, "Welcome back", user.user_id), user |-> user]
       ELSE [ret |-> Ret(FALSE, "Invalid username or password", NoId),
             user |-> cur]

Login(username, password) ==
    LET out == LoginOutcome(users, currentUser, username, password)
    IN /\ UNCHANGED <<expenseVars, users, nextUserId>>
       /\ call' = [op |-> "login", username |-> username,
                   password |-> password]
       /\ ret' = out.ret
       /\ currentUser' = out.user

Logout ==
    /\ currentUser' = NoUser
    /\ call' = [op |-> "logout"]
    /\ ret' = Ret(TRUE, "Logged out successfully", NoId)
    /\ UNCHANGED <<expenseVars, users, nextUserId>>

\* User.change_password without the comparison of the old password.
User_change_passwordUnverified(tbl, user_id, old_password, new_password) ==
    IF user_id \notin DOMAIN tbl
    THEN [ok |-> FALSE, msg |-> "Current password is incorrect", tbl |-> tbl]
    ELSE [ok |-> TRUE, msg |-> "Password changed successfully",
          tbl |-> [tbl EXCEPT ![user_id].password =
                                  hash_password(new_password)]]

\* User.change_password: SELECT password WHERE user_id = %s; without a row,
\* or when the old password does not verify against it, nothing is
\* written; otherwise UPDATE users SET password = %s WHERE user_id = %s.
User_change_password(tbl, user_id, old_password, new_password) ==
    IF user_id \notin DOMAIN tbl
       \/ ~verify_password(old_password, tbl[user_id].password)
    THEN [ok |-> FALSE, msg |-> "Current password is incorrect", tbl |-> tbl]
    ELSE [ok |-> TRUE, msg |-> "Password changed successfully",
          tbl |-> [tbl EXCEPT ![user_id].password =
                                  hash_password(new_password)]]

\* The checks of change_password before User.change_password.
ChangePasswordRejection(cur, new_password, confirm_password) ==
    IF cur = NoUser
    THEN "Not logged in"
    ELSE IF new_password # confirm_password
    THEN "New passwords do not match"
    ELSE validate_password(new_password)

ChangePassword(old_password, new_password, confirm_password) ==
    LET rej == ChangePasswordRejection(currentUser, new_password,
                                       confirm_password)
        done == User_change_password(users, currentUser.user_id,
                                     old_password, new_password)
    IN /\ call' = [op |-> "change_password", old_password |-> old_password,
                   new_password |-> new_password,
                   confirm_password |-> confirm_password]
       /\ IF rej # ""
          THEN /\ ret' = Ret(FALSE, rej, NoId)
               /\ UNCHANGED users
          ELSE /\ ret' = Ret(done.ok, done.msg, NoId)
               /\ users' = done.tbl
       /\ UNCHANGED <<expenseVars, nextUserId, currentUser>>

\* A row's is_active set to FALSE in the database; no statement of the
\* application writes the column.
Deactivate(user_id) ==
    /\ user_id \in DOMAIN users
    /\ users[user_id].is_active
    /\ users' = [users EXCEPT ![user_id].is_active = FALSE]
    /\ call' = [op |-> "deactivate", user_id |-> user_id]
    /\ UNCHANGED <<expenseVars, nextUserId, currentUser, ret>>

\* The checks of update_profile before User.update, against the cached
\* current user `cur`: "" when the call goes on to User.update.
UpdateProfileRejection(cur, tbl, full_name, email) ==
    IF cur = NoUser
    THEN "Not logged in"
    ELSE IF email # <<>> /\ ~validate_email(email)
    THEN "Please enter a valid email address"
    ELSE IF email # <<>> /\ email # cur.email
            /\ User_exists(tbl, <<>>, email) # ""
    THEN "Email already registered"
    ELSE ""

\* The cached current user after a successful update_profile.
ProfileCached(cur, full_name, email) ==
    [cur EXCEPT !.full_name = IF full_name # <<>> THEN full_name ELSE @,
                !.email = IF email # <<>> THEN email ELSE @]

\* update_profile: the checks, User.update, and on success the new name and
\* email stored into the cached current user.
UpdateProfile(full_name, email) ==
    LET rej == UpdateProfileRejection(currentUser, users, full_name, email)
        done == User_update(users, currentUser.user_id, full_name, email)
    IN /\ call' = [op |-> "update_profile", full_name |-> full_name,
                   email |-> email]
       /\ IF rej # ""
          THEN /\ ret' = Ret(FALSE, rej, NoId)
               /\ UNCHANGED <<users, currentUser>>
          ELSE /\ users' = done.tbl
               /\ IF done.ok
                  THEN /\ currentUser' = ProfileCached(currentUser,
                                                       full_name, email)
                       /\ ret' = Ret(TRUE, "Profile updated successfully",
                                     NoId)
                  ELSE /\ ret' = Ret(FALSE, "Failed to update profile",
                                     NoId)
                       /\ UNCHANGED currentUser
       /\ UNCHANGED <<expenseVars, nextUserId>>

(***************************************************************************)
(* Several application processes on one database.  Each process has its    *)
(* own AuthController; a call is a sequence of statements, each of them    *)
(* atomic, and the statements of different processes interleave.           *)
(***************************************************************************)
Sessions == {1, 2}
NoArgs == [username |-> <<>>, email |-> <<>>, password |-> <<>>,
           full_name |-> <<>>]
IdleSession == [pc |-> "idle", user |-> NoUser, args |-> NoArgs]

\* register up to and including User.exists.
SessionRegisterChecks(s, username, email, password, confirm_password, full_name) ==
    LET rej == RegisterRejection(users, username, email, password,
                                 confirm_password, full_name)
    IN /\ sessions[s].pc = "idle"
       /\ call' = [op |-> "register", session |-> s]
       /\ IF rej # ""
          THEN /\ ret' = Ret(FALSE, rej, NoId)
               /\ UNCHANGED sessions
          ELSE /\ sessions' = [sessions EXCEPT
                                 ![s].pc = "create",
                                 ![s].args = [username |-> username,
                                              email |-> email,
                                              password |-> password,
                                              full_name |-> full_name]]
               /\ UNCHANGED ret
       /\ UNCHANGED <<expenseVars, authVars, dbFault, budgets, checkedOut,
                   store>>

\* register from User.create on.
SessionRegisterCreate(s) ==
    LET a == sessions[s].args
        made == User_create(users, nextUserId, a.username, a.email,
                            a.password, a.full_name)
    IN /\ sessions[s].pc = "create"
       /\ call' = [op |-> "register", session |-> s]
       /\ IF made.user # NoUser
          THEN /\ nextUserId <= MaxUserId
               /\ users' = made.tbl
               /\ nextUserId' = nextUserId + 1
               /\ sessions' = [sessions EXCEPT ![s].pc = "idle",
                                               ![s].user = made.user,
                                               ![s].args = NoArgs]
               /\ ret' = Ret(TRUE, "Registration successful! Welcome!",
                             nextUserId)
          ELSE /\ sessions' = [sessions EXCEPT ![s].pc = "idle",
                                               ![s].args = NoArgs]
               /\ ret' = Ret(FALSE, "Registration failed. Please try again.",
                             NoId)
               /\ UNCHANGED <<users, nextUserId>>
       /\ UNCHANGED <<expenseVars, currentUser, dbFault, budgets, checkedOut,
                   store>>

\* update_profile up to and including User.exists.
SessionUpdateProfileChecks(s, full_name, email) ==
    LET rej == UpdateProfileRejection(sessions[s].user, users, full_name, email)
    IN /\ sessions[s].pc = "idle"
       /\ call' = [op |-> "update_profile", session |-> s]
       /\ IF rej # ""
          THEN /\ ret' = Ret(FALSE, rej, NoId)
               /\ UNCHANGED sessions
          ELSE /\ sessions' = [sessions EXCEPT
                                 ![s].pc = "update",
                                 ![s].args = [NoArgs EXCEPT
                                                !.full_name = full_name,
                                                !.email = email]]
               /\ UNCHANGED ret
       /\ UNCHANGED <<expenseVars, authVars, dbFault, budgets, checkedOut,
                   store>>

\* update_profile from User.update on.
SessionUpdateProfileWrite(s) ==
    LET a == sessions[s].args
        cur == sessions[s].user
        done == User_update(users, cur.user_id, a.full_name, a.email)
    IN /\ sessions[s].pc = "update"
       /\ call' = [op |-> "update_profile", session |-> s]
       /\ users' = done.tbl
       /\ IF done.ok
          THEN /\ sessions' = [sessions EXCEPT
                                 ![s].pc = "idle",
                                 ![s].user = ProfileCached(cur, a.full_name,
                                                           a.email),
                                 ![s].args = NoArgs]
               /\ ret' = Ret(TRUE, "Profile updated successfully", NoId)
          ELSE /\ sessions' = [sessions EXCEPT ![s].pc = "idle",
                                               ![s].args = NoArgs]
               /\ ret' = Ret(FALSE, "Failed to update profile", NoId)
       /\ UNCHANGED <<expenseVars, nextUserId, currentUser, dbFault, budgets,
                   checkedOut, store>>

\* login: one SELECT.
SessionLogin(s, username, password) ==
    LET user == User_authenticate(users, username, password)
    IN /\ sessions[s].pc = "idle"
       /\ username # <<>> /\ password # <<>>
       /\ call' = [op |-> "login", session |-> s]
       /\ IF user # NoUser
          THEN /\ sessions' = [sessions EXCEPT ![s].user = user]
               /\ ret' = Ret(TRUE, "Welcome back", user.user_id)
          ELSE /\ ret' = Ret(FALSE, "Invalid username or password", NoId)
               /\ UNCHANGED sessions
       /\ UNCHANGED <<expenseVars, authVars, dbFault, budgets, checkedOut,
                   store>>

(***************************************************************************)
(* The calls the presentation layers make.                                 *)
(***************************************************************************)
Cash == <<"C","a","s","h">>
Upi == <<"U","P","I">>

AddArgs1 ==
    [category_id |-> 1, amount |-> StrAmount(<<"1", ".", "5">>),
     description |-> Opt(Tea), expense_date |-> 20240105,
     payment_method |-> Cash, notes |-> NoneStr]
AddArgs2 ==
    [category_id |-> 2, amount |-> NumAmount(200),
     description |-> Opt(Bus), expense_date |-> 20240210,
     payment_method |-> Upi, notes |-> Opt(NoteAB)]
ValidAddArgs == {AddArgs1, AddArgs2}
BadAmounts ==
    {StrAmount(<<"0">>), StrAmount(<<"-", "1">>), StrAmount(<<"a", "b", "c">>),
     StrAmount(<<>>), NumAmount(0), NoneAmount}
AddArgs ==
    ValidAddArgs
    \cup {[AddArgs1 EXCEPT !.amount = a] : a \in BadAmounts}
    \cup {[AddArgs1 EXCEPT !.category_id = NoId],
          [AddArgs1 EXCEPT !.description = Opt(<<>>)],
          [AddArgs2 EXCEPT !.expense_date = NoDate]}

ValidUpdateArgs ==
    {NoKwargs,
     [NoKwargs EXCEPT !.amount = StrAmount(<<"2">>),
                      !.description = Opt(Bus), !.notes = Opt(NoteAB)],
     [NoKwargs EXCEPT !.category_id = 2, !.expense_date = 20240210,
                      !.payment_method = Opt(Upi)]}
UpdateArgs ==
    ValidUpdateArgs \cup
    {[NoKwargs EXCEPT !.amount = StrAmount(<<"0">>), !.notes = Opt(NoteAB)],
     [NoKwargs EXCEPT !.amount = StrAmount(<<"a", "b", "c">>)],
     [NoKwargs EXCEPT !.amount = NoneAmount, !.description = Opt(Bus)]}

\* Identifiers a caller may name: stored, deleted or not yet given out.
ExpenseIdArgs == 1 .. MaxExpenseId

Usernames == {<<>>, <<"a","b">>, <<"b","o","b">>, <<"a","m","y","_","1">>}
Emails == {<<>>, <<"n","o","t","-","a","n","-","e","m","a","i","l">>,
           <<"b","@","x",".","i","o">>,
           <<"a",".","m","@","y","-","z",".","o","r","g">>}
Passwords == {<<>>, <<"a","b","c","1","2","3">>, <<"a","b","c","d","e","f">>,
              <<"1","2","3","4","5","6">>, <<"a","b","1">>}
ConfirmPasswords == {<<"a","b","c","1","2","3">>, <<"a","b","c","d","e","f">>}
FullNames == {<<>>, <<"B">>}
SessionUsernames == {<<"b","o","b">>, <<"a","m","y","_","1">>}
SessionEmails == {<<"b","@","x",".","i","o">>,
                  <<"a",".","m","@","y","-","z",".","o","r","g">>}
SessionPassword == <<"a","b","c","1","2","3">>
OtherPassword == <<"x","1","y","2","z","3">>
AccountPasswords == {SessionPassword, OtherPassword}
NewPasswords == AccountPasswords \cup {<<"a","b","c","d","e","f">>}
LoginNames == {<<>>, <<"b","o","b">>, <<"a","m","y","_","1">>,
               <<"b","@","x",".","i","o">>}

(***************************************************************************)
(* Specifications.                                                         *)
(***************************************************************************)
Init ==
    /\ expenses = <<>>
    /\ nextExpenseId = 1
    /\ users = <<>>
    /\ nextUserId = 1
    /\ currentUser = NoUser
    /\ call = [op |-> "none"]
    /\ ret = Ret(TRUE, "", NoId)
    /\ dbFault = "ok"
    /\ checkedOut = 0
    /\ store = <<>>
    /\ sessions = [s \in Sessions |-> IdleSession]
    /\ budgets = <<>>

AddExpenseStep ==
    \E u \in CallerIds, a \in AddArgs :
        /\ u = NoId => a = AddArgs1
        /\ u = 2 => a \in ValidAddArgs
        /\ AddExpense(u, a.category_id, a.amount, a.description,
                      a.expense_date, a.payment_method, a.notes)
        /\ UNCHANGED envVars
UpdateExpenseStep ==
    \E id \in ExpenseIdArgs, u \in CallerIds, kw \in UpdateArgs :
        /\ u = NoId => kw \in ValidUpdateArgs
        /\ UpdateExpense(id, u, kw)
        /\ UNCHANGED envVars
DeleteExpenseStep ==
    \E id \in ExpenseIdArgs, u \in CallerIds :
        DeleteExpense(id, u) /\ UNCHANGED envVars

Next == AddExpenseStep \/ UpdateExpenseStep \/ DeleteExpenseStep

Spec == Init /\ [][Next]_vars

RegisterStep ==
    \E un \in Usernames, em \in Emails, pw \in Passwords,
       cp \in ConfirmPasswords, fn \in FullNames :
        Register(un, em, pw, cp, fn) /\ UNCHANGED envVars
LoginStep ==
    \E un \in LoginNames, pw \in Passwords : Login(un, pw) /\ UNCHANGED envVars
LogoutStep == Logout /\ UNCHANGED envVars

NextAuth == RegisterStep \/ LoginStep \/ LogoutStep

SpecAuth == Init /\ [][NextAuth]_vars

\* The read operations on stored expenses and budgets, with the database
\* available or failing.
DbFaults == {"ok", "no_connection", "cursor_error", "statement_error"}

StoredRows ==
    (1 :> ExpenseRow(1, 1, 10000, Tea, 20240305, Cash, NoneStr))
    @@ (2 :> ExpenseRow(1, 1, 25050, Bus, 20240312, Upi, Opt(NoteAB)))
    @@ (3 :> ExpenseRow(1, 1, 4950, Tea, 20240320, Cash, NoneStr))
    @@ (4 :> ExpenseRow(1, 2, 200, Bus, 20240210, Upi, NoneStr))
    @@ (5 :> ExpenseRow(2, 2, 150, Tea, 20240305, Cash, NoneStr))
StoredTables ==
    {[i \in ids |-> StoredRows[i]] : ids \in SUBSET DOMAIN StoredRows}
StoredBudgets ==
    {<<>>, <<BudgetRow(1, 1, 50000, 20240301)>>,
     <<BudgetRow(1, 1, 50000, 20240201), BudgetRow(1, 1, 70000, 20240301)>>}
ReadRanges ==
    {<<NoDate, NoDate>>, <<20240301, 20240331>>, <<20240101, 20240131>>}
ReadYears == {2023, 2024}
ReadMonths == {2, 3}
ReadTerms == {<<"e","A">>, <<"_">>}

InitRead ==
    /\ expenses \in StoredTables
    /\ nextExpenseId = Cardinality(DOMAIN StoredRows) + 1
    /\ users = <<>>
    /\ nextUserId = 1
    /\ currentUser = NoUser
    /\ call = [op |-> "none"]
    /\ ret = Ret(TRUE, "", NoId)
    /\ dbFault = "ok"
    /\ checkedOut = 0
    /\ store = <<>>
    /\ sessions = [s \in Sessions |-> IdleSession]
    /\ budgets \in StoredBudgets

ReadFrame ==
    UNCHANGED <<expenseVars, authVars, dbFault, sessions, budgets, checkedOut,
                   store>>

DbCondition ==
    /\ checkedOut < pool_size
    /\ \E f \in DbFaults \ {dbFault} : dbFault' = f
    /\ call' = [op |-> "none"]
    /\ UNCHANGED <<expenseVars, authVars, ret, sessions, budgets, checkedOut,
                   store>>

GetTotalExpenses ==
    \E u \in UserIds, r \in ReadRanges, c \in {NoId} \cup CategoryIds :
        /\ call' = [op |-> "get_total_expenses", user_id |-> u,
                    start_date |-> r[1], end_date |-> r[2],
                    category_id |-> c, fault |-> dbFault]
        /\ ret' = get_total_expenses(expenses, u, r[1], r[2], c)
        /\ ReadFrame
GetCategoryTotals ==
    \E u \in UserIds, r \in ReadRanges :
        /\ call' = [op |-> "get_category_totals", user_id |-> u,
                    start_date |-> r[1], end_date |-> r[2],
                    fault |-> dbFault]
        /\ ret' \in get_category_totals(expenses, u, r[1], r[2])
        /\ ReadFrame
GetMonthlyTotals ==
    \E u \in UserIds, y \in ReadYears :
        /\ call' = [op |-> "get_monthly_totals", user_id |-> u, year |-> y,
                    fault |-> dbFault]
        /\ ret' = get_monthly_totals(expenses, u, y)
        /\ ReadFrame
GetDailyTotals ==
    \E u \in UserIds, y \in ReadYears, m \in ReadMonths :
        /\ call' = [op |-> "get_daily_totals", user_id |-> u, year |-> y,
                    month |-> m, fault |-> dbFault]
        /\ ret' \in get_daily_totals(expenses, u, y, m)
        /\ ReadFrame
GetExpenseStats ==
    \E u \in UserIds, r \in ReadRanges :
        /\ call' = [op |-> "get_expense_stats", user_id |-> u,
                    start_date |-> r[1], end_date |-> r[2],
                    fault |-> dbFault]
        /\ ret' = get_expense_stats(expenses, u, r[1], r[2])
        /\ ReadFrame
GetUserExpenses ==
    \E u \in UserIds, r \in ReadRanges, c \in {NoId, 2} :
        /\ call' = [op |-> "get_user_expenses", user_id |-> u,
                    start_date |-> r[1], end_date |-> r[2],
                    category_id |-> c, fault |-> dbFault]
        /\ ret' \in get_user_expenses(expenses, u, r[1], r[2], c, 0, 0)
        /\ ReadFrame
Search ==
    \E u \in UserIds, t \in ReadTerms :
        /\ call' = [op |-> "search", user_id |-> u, search_term |-> t,
                    fault |-> dbFault]
        /\ ret' \in search(expenses, u, t)
        /\ ReadFrame
GetCategoryBudget ==
    \E u \in UserIds, c \in CategoryIds :
        /\ call' = [op |-> "get_category_budget", user_id |-> u,
                    category_id |-> c, fault |-> dbFault]
        /\ ret' \in get_category_budget(budgets, u, c)
        /\ Pool(Acquired, budgetClosed)
        /\ UNCHANGED <<expenseVars, authVars, sessions, budgets, store>>

NextRead ==
    \/ DbCondition
    \/ GetTotalExpenses
    \/ GetCategoryTotals
    \/ GetMonthlyTotals
    \/ GetDailyTotals
    \/ GetExpenseStats
    \/ GetUserExpenses
    \/ Search

SpecRead == InitRead /\ [][NextRead]_vars

\* The write operations with the database available or failing.
BudgetAmounts == {50000, 70000}
BudgetMonths == {20240201, 20240301}

WriteAddStep ==
    \E u \in {1} :
        /\ AddExpense(u, AddArgs1.category_id, AddArgs1.amount,
                      AddArgs1.description, AddArgs1.expense_date,
                      AddArgs1.payment_method, AddArgs1.notes)
        /\ UNCHANGED envVars
WriteUpdateArgs ==
    {[NoKwargs EXCEPT !.amount = StrAmount(<<"2">>),
                      !.description = Opt(Bus), !.notes = Opt(NoteAB)]}
WriteUpdateStep ==
    \E id \in ExpenseIdArgs, kw \in WriteUpdateArgs :
        UpdateExpense(id, 1, kw) /\ UNCHANGED envVars
WriteDeleteStep ==
    \E id \in ExpenseIdArgs : DeleteExpense(id, 1) /\ UNCHANGED envVars
WriteBudgetStep ==
    \E a \in BudgetAmounts : SetCategoryBudget(1, 1, a, 20240301)

NextWrite ==
    \/ DbCondition
    \/ WriteAddStep
    \/ WriteUpdateStep
    \/ WriteDeleteStep
    \/ WriteBudgetStep

SpecWrite == Init /\ [][NextWrite]_vars

\* Budgets set and read by one process.
BudgetPairs == {<<1, 1>>, <<1, 2>>, <<2, 1>>}
SetCategoryBudgetStep ==
    \E p \in BudgetPairs, a \in BudgetAmounts, m \in BudgetMonths :
        /\ p # <<1, 1>> => m = 20240301
        /\ SetCategoryBudget(p[1], p[2], a, m)

NextBudget == DbCondition \/ SetCategoryBudgetStep \/ GetCategoryBudget

SpecBudget == Init /\ [][NextBudget]_vars

\* One process: accounts registered, signed in and out, their passwords
\* changed, and rows deactivated in the database.
AccountRegisterStep ==
    \E un \in SessionUsernames, em \in SessionEmails :
        /\ Register(un, em, SessionPassword, SessionPassword, <<"B">>)
        /\ UNCHANGED envVars
AccountLoginStep ==
    \E un \in LoginNames, pw \in AccountPasswords \cup {<<>>} :
        Login(un, pw) /\ UNCHANGED envVars
ChangePasswordStep ==
    \E old \in AccountPasswords, new \in NewPasswords,
       cp \in AccountPasswords :
        ChangePassword(old, new, cp) /\ UNCHANGED envVars
DeactivateStep == \E u \in UserIds : Deactivate(u) /\ UNCHANGED envVars

UpdateProfileStep ==
    \E fn \in {<<>>, <<"C">>}, em \in {<<>>} \cup SessionEmails :
        UpdateProfile(fn, em) /\ UNCHANGED envVars

\* One process: the calls that read or write AuthController._current_user.
NextLifecycle ==
    \/ AccountRegisterStep
    \/ AccountLoginStep
    \/ LogoutStep
    \/ ChangePasswordStep
    \/ UpdateProfileStep

SpecLifecycle == Init /\ [][NextLifecycle]_vars

NextAccount ==
    \/ AccountRegisterStep
    \/ AccountLoginStep
    \/ LogoutStep
    \/ ChangePasswordStep
    \/ DeactivateStep

SpecAccount == Init /\ [][NextAccount]_vars

\* Two processes registering, logging in and editing profiles.
SessionRegisterStep ==
    \E s \in Sessions, un \in SessionUsernames, em \in SessionEmails :
        \/ SessionRegisterChecks(s, un, em, SessionPassword, SessionPassword,
                                 <<"B">>)
        \/ SessionRegisterCreate(s)
SessionUpdateProfileStep ==
    \E s \in Sessions, fn \in {<<>>, <<"C">>},
       em \in {<<>>} \cup SessionEmails :
        \/ SessionUpdateProfileChecks(s, fn, em)
        \/ SessionUpdateProfileWrite(s)
SessionLoginStep ==
    \E s \in Sessions, un \in SessionUsernames :
        SessionLogin(s, un, SessionPassword)

NextSessions ==
    SessionRegisterStep \/ SessionUpdateProfileStep \/ SessionLoginStep

SpecSessions == Init /\ [][NextSessions]_vars


(***************************************************************************)
(* Properties of the expense operations (specification Spec).              *)
(***************************************************************************)
RowKept(e) == e \in DOMAIN expenses' /\ expenses'[e] = expenses[e]
Owns(tbl, u, e) == e \in DOMAIN tbl /\ tbl[e].user_id = u

\* C1: deleting a stored expense as a user who does not own it leaves the
\* expense stored unchanged; after its owner deletes it, get_by_id for the
\* owner finds no expense.
ThmC1 ==
    [][(call'.op = "delete" /\ call'.expense_id \in DOMAIN expenses) =>
          IF Owns(expenses, call'.user_id, call'.expense_id)
          THEN get_by_id(expenses', call'.expense_id, call'.user_id) = NoExpense
          ELSE RowKept(call'.expense_id)]_vars

WitC1 ==
    /\ call.op = "delete" /\ call.user_id \in UserIds
    /\ call.expense_id \in DOMAIN expenses
    /\ expenses[call.expense_id].user_id # call.user_id

\* C2: update_expense(id, user, fields) changes no expense whose owner is
\* not `user`, for every `user` including the absent one, and when no
\* expense with that id belongs to `user` it returns (False, "Expense not
\* found") and changes no row.
CexC2 ==
    [][call'.op = "update" =>
          /\ \A e \in DOMAIN expenses :
                expenses[e].user_id # call'.user_id => RowKept(e)
          /\ ~Owns(expenses, call'.user_id, call'.expense_id)
                => /\ ret' = Ret(FALSE, "Expense not found", NoId)
                   /\ expenses' = expenses]_vars

\* The columns update writes, and whether a call supplies one.
UpdateFields ==
    {"category_id", "amount", "description", "expense_date",
     "payment_method", "notes"}
Supplied(kw, f) ==
    CASE f = "amount" -> kw.amount.kind \in {"num", "str"}
      [] f \in {"category_id", "expense_date"} -> kw[f] # 0
      [] OTHER -> kw[f] # <<>>

\* C3: a successful update_expense leaves every column it was not given
\* (or was given as None) at its prior value in that expense, and changes
\* no other expense row.
ThmC3 ==
    [][(call'.op = "update" /\ ret'.ok) =>
          /\ DOMAIN expenses' = DOMAIN expenses
          /\ \A e \in DOMAIN expenses \ {call'.expense_id} : RowKept(e)
          /\ expenses'[call'.expense_id].user_id
                = expenses[call'.expense_id].user_id
          /\ \A f \in UpdateFields :
                ~Supplied(call'.kwargs, f) =>
                    expenses'[call'.expense_id][f]
                        = expenses[call'.expense_id][f]]_vars

WitC3 ==
    /\ call.op = "update" /\ ret.ok
    /\ Supplied(call.kwargs, "amount") /\ ~Supplied(call.kwargs, "category_id")
    /\ expenses[call.expense_id].category_id = 2
    /\ expenses[call.expense_id].payment_method = Upi
    /\ Cardinality(DOMAIN expenses) = 2

\* The arguments add_expense is to refuse: an empty required field, an
\* amount that is not a number, an amount that is not positive.
Refused(a) ==
    \/ a.user_id = NoId \/ a.category_id = NoId \/ a.expense_date = NoDate
    \/ a.description \in {NoneStr, Opt(<<>>)}
    \/ a.amount \in {NoneAmount, StrAmount(<<>>)}
    \/ ToFloat(a.amount).err # ""
    \/ ToFloat(a.amount).val <= 0

\* C4: add_expense returns a failure and inserts nothing when an argument
\* is to be refused; otherwise it inserts exactly one row and returns the
\* new expense with its generated identifier.
ThmC4 ==
    [][call'.op = "add" =>
          IF Refused(call')
          THEN ~ret'.ok /\ ret'.id = NoId /\ expenses' = expenses
          ELSE /\ ret'.ok
               /\ ret'.id \notin DOMAIN expenses
               /\ DOMAIN expenses' = DOMAIN expenses \cup {ret'.id}
               /\ \A e \in DOMAIN expenses : RowKept(e)]_vars

WitC4 ==
    /\ call.op = "add" /\ ret.ok /\ ret.id = 2
    /\ DOMAIN expenses = {1, 2}

QueryRanges ==
    {<<NoDate, NoDate>>, <<20240105, 20240105>>, <<20240210, NoDate>>}
QueryYears == {2024}
QueryMonths == {1, 2}
SearchTerms == {<<"B">>, <<"a","_","b">>, <<"E","A">>}

ResultsFor(tbl, a) ==
    [total |-> [r \in QueryRanges, c \in {NoId} \cup CategoryIds |->
                    get_total_expenses(tbl, a, r[1], r[2], c)],
     category |-> [r \in QueryRanges |->
                    get_category_totals(tbl, a, r[1], r[2])],
     monthly |-> [y \in QueryYears |-> get_monthly_totals(tbl, a, y)],
     daily |-> [y \in QueryYears, m \in QueryMonths |->
                    get_daily_totals(tbl, a, y, m)],
     stats |-> [r \in QueryRanges |-> get_expense_stats(tbl, a, r[1], r[2])],
     list |-> [r \in QueryRanges, c \in {NoId, 2} |->
                    get_user_expenses(tbl, a, r[1], r[2], c, 0, 0)],
     recent |-> get_user_expenses(tbl, a, NoDate, NoDate, NoId, 1, 0),
     found |-> [t \in SearchTerms |-> search(tbl, a, t)]]

\* The rows of the table that user a owns.
OwnRows(tbl, a) == [i \in {j \in DOMAIN tbl : tbl[j].user_id = a} |-> tbl[i]]

\* C6: what the totals, category, monthly and daily totals, statistics,
\* expense list and search return for user a is unchanged by an add,
\* update or delete made as another user b: each result is what the
\* query returns on a's own rows alone, and a write made as b leaves the
\* rows of every other user a as they were.
ThmC6 ==
    /\ [](\A a \in UserIds :
            ResultsFor(expenses, a) = ResultsFor(OwnRows(expenses, a), a))
    /\ [][(call'.op \in {"add", "update", "delete"}
              /\ call'.user_id \in UserIds)
            => \A a \in UserIds \ {call'.user_id} :
                  OwnRows(expenses', a) = OwnRows(expenses, a)]_vars

WitC6 ==
    /\ call.op = "update" /\ ret.ok /\ call.user_id = 2
    /\ \E e \in DOMAIN expenses : expenses[e].user_id = 1
    /\ get_total_expenses(expenses, 1, NoDate, NoDate, NoId) = 150
    /\ get_total_expenses(expenses, 2, NoDate, NoDate, NoId) = 200

\* C7: delete_expense(id, user) reports success only if the row with that
\* id and that user was removed, and reports failure when there is no
\* such row.
CexC7 ==
    [][call'.op = "delete" =>
          (ret'.ok <=> /\ Owns(expenses, call'.user_id, call'.expense_id)
                       /\ call'.expense_id \notin DOMAIN expenses')]_vars

\* C8: after add_expense succeeds with identifier k, get_by_id(k, user)
\* returns an expense whose user, category, amount, description, date,
\* payment method and notes are the values supplied.
ThmC8 ==
    (call.op = "add" /\ ret.ok) =>
        get_by_id(expenses, ret.id, call.user_id) =
            [expense_id |-> ret.id, user_id |-> call.user_id,
             category_id |-> call.category_id,
             amount |-> ToFloat(call.amount).val,
             description |-> call.description[1],
             expense_date |-> call.expense_date,
             payment_method |-> call.payment_method,
             notes |-> call.notes]

WitC8 ==
    /\ call.op = "add" /\ ret.ok /\ ret.id = 2
    /\ call.amount = StrAmount(<<"1", ".", "5">>)
    /\ expenses[2].amount = 150 /\ IsNone(expenses[2].notes)
    /\ 1 \in DOMAIN expenses /\ expenses[1].user_id # expenses[2].user_id


(***************************************************************************)
(* Properties of registration (specification SpecAuth).                    *)
(***************************************************************************)
\* The six checks in the order the contract lists them, each with whether
\* it fails for the call c on the table tbl and the message it gives.
ListedChecks(tbl, c) ==
    << <<~validate_username(c.username),
         "Username must be 3-20 characters (letters, numbers, underscore)">>,
       <<~validate_email(c.email), "Please enter a valid email address">>,
       <<validate_password(c.password) # "", validate_password(c.password)>>,
       <<c.password # c.confirm_password, "Passwords do not match">>,
       <<\E i \in DOMAIN tbl : tbl[i].username = c.username,
         "Username already taken">>,
       <<\E i \in DOMAIN tbl : tbl[i].email = c.email,
         "Email already registered">> >>

\* The number of the first listed check that fails, 0 when none does.
RECURSIVE FirstFrom(_, _)
FirstFrom(checks, k) ==
    IF k > Len(checks) THEN 0
    ELSE IF checks[k][1] THEN k
    ELSE FirstFrom(checks, k + 1)
FirstFailing(checks) == FirstFrom(checks, 1)

HasEmptyField(c) ==
    \E f \in {"username", "email", "password", "confirm_password",
              "full_name"} : c[f] = <<>>

\* The users table as the call just served found it: a successful
\* register added the row it returned, no other call adds one.
UsersBefore ==
    IF call.op = "register" /\ ret.ok
    THEN [i \in DOMAIN users \ {ret.id} |-> users[i]]
    ELSE users

\* C9 as stated: register makes the six checks in the listed order and,
\* when some of them fail, returns the message of the first one failing.
CexC9 ==
    call.op = "register" =>
        LET checks == ListedChecks(UsersBefore, call)
            k == FirstFailing(checks)
        IN k # 0 => ret = Ret(FALSE, checks[k][2], NoId)

\* C9 as amended: a call with an empty field is refused with "All fields
\* are required" before any other check; a call with no empty field gets
\* the message of the first failing check in the listed order, and
\* succeeds when none fails.
ThmC9 ==
    call.op = "register" =>
        LET checks == ListedChecks(UsersBefore, call)
            k == FirstFailing(checks)
        IN IF HasEmptyField(call)
           THEN ret = Ret(FALSE, "All fields are required", NoId)
           ELSE IF k # 0
           THEN ret = Ret(FALSE, checks[k][2], NoId)
           ELSE ret.ok

WitC9 ==
    /\ call.op = "register" /\ ~HasEmptyField(call)
    /\ ~validate_email(call.email)
    /\ validate_password(call.password) # ""
    /\ call.password # call.confirm_password
    /\ \E i \in DOMAIN users : users[i].username = call.username
    /\ ret.msg = "Please enter a valid email address"

\* The messages of each reason for refusing a registration: 1 the
\* username, 2 the email, 3 the password policy, 4 the confirmation,
\* 5 a duplicate username, 6 a duplicate email, 7 an empty field.
ReasonMessages ==
    << {"Username must be 3-20 characters (letters, numbers, underscore)"},
       {"Please enter a valid email address"},
       {"Password must be at least 6 characters",
        "Password must contain at least one letter",
        "Password must contain at least one number"},
       {"Passwords do not match"},
       {"Username already taken"},
       {"Email already registered"},
       {"All fields are required"} >>

RefusalReason(tbl, c) ==
    IF HasEmptyField(c) THEN 7 ELSE FirstFailing(ListedChecks(tbl, c))

\* C10: a refused register leaves the user rows and the current user as
\* they were, and the message it returns belongs to its reason and to no
\* other reason.
ThmC10 ==
    /\ [][(call'.op = "register" /\ ~ret'.ok) =>
            /\ users' = users /\ nextUserId' = nextUserId
            /\ currentUser' = currentUser]_vars
    /\ []((call.op = "register" /\ ~ret.ok) =>
            /\ RefusalReason(users, call) \in DOMAIN ReasonMessages
            /\ \A r \in DOMAIN ReasonMessages :
                  ret.msg \in ReasonMessages[r]
                      <=> r = RefusalReason(users, call))

WitC10 ==
    /\ call.op = "register" /\ ~ret.ok
    /\ ret.msg = "Email already registered"
    /\ currentUser # NoUser /\ DOMAIN users = {1}

(***************************************************************************)
(* Properties of concurrent processes (specification SpecSessions).        *)
(***************************************************************************)
\* C11: after any interleaving of the statements of register and
\* update_profile calls made by two processes, no two stored users share a
\* username and no two share an email.
ThmC11 ==
    \A i, j \in DOMAIN users :
        i # j => /\ users[i].username # users[j].username
                 /\ users[i].email # users[j].email

\* Two registrations of one username passed User.exists together, one of
\* them was stored and the other was refused by the table.
WitC11 ==
    /\ call.op = "register"
    /\ ret.msg = "Registration failed. Please try again."
    /\ Cardinality(DOMAIN users) = 1

(***************************************************************************)
(* Properties of one process's accounts (specification SpecAccount).       *)
(***************************************************************************)
KnownName(tbl, name) ==
    \E i \in DOMAIN tbl : tbl[i].username = name \/ tbl[i].email = name
WrongPassword(tbl, name, password) ==
    \A i \in DOMAIN tbl :
        (tbl[i].username = name \/ tbl[i].email = name)
            => ~verify_password(password, tbl[i].password)
TriedPasswords == AccountPasswords \cup {<<>>}

\* C12: login with the name of a stored user and a password that is not
\* that user's, and login with a name no stored user has, return the same
\* result (failure, the same message, no user) and leave the current user
\* as it was.
ThmC12 ==
    \A n1, n2 \in LoginNames \ {<<>>}, p \in TriedPasswords :
        (KnownName(users, n1) /\ WrongPassword(users, n1, p)
         /\ ~KnownName(users, n2))
        => LET a == LoginOutcome(users, currentUser, n1, p)
               b == LoginOutcome(users, currentUser, n2, p)
           IN /\ a = b
              /\ ~a.ret.ok /\ a.ret.id = NoId
              /\ a.user = currentUser

\* A login under a stored name with a wrong password was refused while
\* another name is still unknown.
WitC12 ==
    /\ call.op = "login"
    /\ call.password # <<>>
    /\ KnownName(users, call.username)
    /\ WrongPassword(users, call.username, call.password)
    /\ ret = Ret(FALSE, "Invalid username or password", NoId)
    /\ \E n \in LoginNames \ {<<>>} : ~KnownName(users, n)

CanLogin(tbl, i, name, password) ==
    /\ tbl[i].is_active
    /\ tbl[i].username = name \/ tbl[i].email = name
    /\ tbl[i].password = hash_password(password)

\* C13: login(name, password) succeeds exactly when an active stored user
\* has `name` as username or email and the hash of `password` as stored
\* hash, and it returns that user; right after a successful register, login
\* with the registered username and with the registered email both succeed
\* and return the registered user.
ThmC13 ==
    /\ \A n \in LoginNames, p \in TriedPasswords :
          LET o == LoginOutcome(users, currentUser, n, p)
          IN /\ o.ret.ok <=> \E i \in DOMAIN users : CanLogin(users, i, n, p)
             /\ o.ret.ok => /\ CanLogin(users, o.ret.id, n, p)
                             /\ o.user.user_id = o.ret.id
    /\ (call.op = "register" /\ ret.ok)
          => \A n \in {call.username, call.email} :
                LET o == LoginOutcome(users, currentUser, n, call.password)
                IN o.ret.ok /\ o.ret.id = ret.id /\ o.user.user_id = ret.id

\* A login by email succeeded while another, deactivated user is stored.
WitC13 ==
    /\ call.op = "login" /\ ret.ok
    /\ users[ret.id].email = call.username
    /\ \E j \in DOMAIN users : ~users[j].is_active

ChangeAllowed ==
    /\ currentUser # NoUser
    /\ call'.new_password = call'.confirm_password
    /\ validate_password(call'.new_password) = ""
    /\ currentUser.user_id \in DOMAIN users
    /\ verify_password(call'.old_password,
                       users[currentUser.user_id].password)

InMonth(tbl, u, y, m) ==
    {i \in DOMAIN tbl : /\ tbl[i].user_id = u
                        /\ YearOf(tbl[i].expense_date) = y
                        /\ MonthOf(tbl[i].expense_date) = m}

\* C15: for every user and year, whatever is stored and whether or not the
\* query succeeds, get_monthly_totals returns twelve entries, the m-th for
\* month m, with total 0 and count 0 for a month in which the user has no
\* expense that year.
ThmC15 ==
    \A u \in UserIds, y \in ReadYears :
        LET r == get_monthly_totals(expenses, u, y)
        IN /\ Len(r) = 12
           /\ \A m \in 1 .. 12 :
                /\ r[m].month = m
                /\ InMonth(expenses, u, y, m) = {}
                      => r[m].total = 0 /\ r[m].count = 0

\* The monthly totals of a year with expenses in March only were returned.
WitC15 ==
    /\ call.op = "get_monthly_totals" /\ call.fault = "ok"
    /\ ret[3].total > 0 /\ ret[3].count > 0
    /\ ret[1].total = 0 /\ ret[12].count = 0

\* C16: with the query answered, get_category_totals returns one row for
\* every category, with total 0 and count 0 for a category in which the
\* user has no expense in the range, in an order in which the total never
\* increases.
ThmC16 ==
    dbFault = "ok" =>
        \A u \in UserIds, r \in ReadRanges :
            \A rows \in get_category_totals(expenses, u, r[1], r[2]) :
                /\ Len(rows) = Cardinality(CategoryIds)
                /\ {rows[k].category_id : k \in DOMAIN rows} = CategoryIds
                /\ \A k \in DOMAIN rows :
                      Matching(expenses, u, r[1], r[2], rows[k].category_id) = {}
                          => rows[k].total = 0 /\ rows[k].count = 0
                /\ \A k \in 1 .. Len(rows) - 1 :
                      rows[k].total >= rows[k + 1].total

\* Category totals were returned with the second category first and the
\* first category, without expenses, after it.
WitC16 ==
    /\ call.op = "get_category_totals" /\ call.fault = "ok"
    /\ Len(ret) = 2
    /\ ret[1].category_id = 2 /\ ret[1].total > 0
    /\ ret[2].category_id = 1 /\ ret[2].count = 0

RECURSIVE SumTotals(_)
SumTotals(rows) ==
    IF rows = <<>> THEN 0 ELSE rows[1].total + SumTotals(Tail(rows))

\* C17: after any adds, updates and deletes, for every user and date range
\* the totals of the rows of get_category_totals add up to
\* get_total_expenses for the same user and range.
ThmC17 ==
    \A u \in UserIds, r \in QueryRanges :
        \A rows \in get_category_totals(expenses, u, r[1], r[2]) :
            SumTotals(rows) = get_total_expenses(expenses, u, r[1], r[2], NoId)

\* A user has expenses in both categories, one of them outside a queried
\* range that contains the other.
WitC17 ==
    \E u \in UserIds, r \in QueryRanges :
        /\ get_total_expenses(expenses, u, r[1], r[2], NoId) > 0
        /\ get_total_expenses(expenses, u, r[1], r[2], NoId)
              < get_total_expenses(expenses, u, NoDate, NoDate, NoId)
        /\ \A c \in CategoryIds :
              get_total_expenses(expenses, u, NoDate, NoDate, c) > 0

ZeroStats ==
    [total |-> 0, average |-> 0, max_expense |-> 0, min_expense |-> 0,
     count |-> 0]

\* C18: for a user without expenses dated within the range,
\* get_total_expenses returns 0 and get_expense_stats returns count 0 and
\* total, average, max_expense and min_expense 0.
ThmC18 ==
    \A u \in UserIds, r \in ReadRanges :
        Matching(expenses, u, r[1], r[2], NoId) = {}
            => /\ get_total_expenses(expenses, u, r[1], r[2], NoId) = 0
               /\ get_expense_stats(expenses, u, r[1], r[2]) = ZeroStats

\* The statistics of a range without expenses were returned for a user who
\* has expenses outside the range.
WitC18 ==
    /\ call.op = "get_expense_stats" /\ call.fault = "ok"
    /\ Matching(expenses, call.user_id, call.start_date, call.end_date, NoId)
          = {}
    /\ Matching(expenses, call.user_id, NoDate, NoDate, NoId) # {}
    /\ ret = ZeroStats

\* The user's expenses in the range are three, of 100.00, 250.50 and 49.50.
ThreeExpenses(tbl, u, r) ==
    LET ids == Matching(tbl, u, r[1], r[2], NoId)
    IN /\ Cardinality(ids) = 3
       /\ {tbl[i].amount : i \in ids} = {10000, 25050, 4950}

\* AVG's value, in millionths, rounded half up to hundredths.
RoundedToCents(average) == (average + 5000) \div 10000

\* C19 as stated: for the three expenses the total is 400.00 and the
\* statistics are average 133.50, max 250.50, min 49.50 and count 3.
CexC19 ==
    (/\ call.op = "get_expense_stats" /\ call.fault = "ok"
     /\ ThreeExpenses(expenses, call.user_id,
                      <<call.start_date, call.end_date>>))
        => /\ get_total_expenses(expenses, call.user_id, call.start_date,
                                 call.end_date, NoId) = 40000
           /\ RoundedToCents(ret.average) = 13350
           /\ ret.max_expense = 25050 /\ ret.min_expense = 4950
           /\ ret.count = 3

\* C19: for the three expenses the total is 400.00 and the statistics are
\* total 400.00, average 133.33 when rounded to 2 decimals (133.333333 as
\* returned), max 250.50, min 49.50 and count 3.
ThmC19 ==
    dbFault = "ok" =>
        \A u \in UserIds, r \in ReadRanges :
            ThreeExpenses(expenses, u, r)
                => LET st == get_expense_stats(expenses, u, r[1], r[2])
                   IN /\ get_total_expenses(expenses, u, r[1], r[2], NoId)
                            = 40000
                      /\ st.total = 40000
                      /\ st.average = 133333333
                      /\ RoundedToCents(st.average) = 13333
                      /\ st.max_expense = 25050 /\ st.min_expense = 4950
                      /\ st.count = 3

\* The statistics of the three expenses were returned.
WitC19 ==
    /\ call.op = "get_expense_stats" /\ call.fault = "ok"
    /\ ThreeExpenses(expenses, call.user_id,
                     <<call.start_date, call.end_date>>)
    /\ ret.count = 3

\* C20: without a connection, or with the statement raising a database
\* error, every read operation returns its empty or zero result and does
\* not raise.
ThmC20 ==
    dbFault \in {"no_connection", "statement_error"} =>
        \A u \in UserIds :
            /\ \A r \in ReadRanges :
                  /\ \A c \in {NoId} \cup CategoryIds :
                        /\ get_total_expenses(expenses, u, r[1], r[2], c) = 0
                        /\ get_user_expenses(expenses, u, r[1], r[2], c, 0, 0)
                              = {<<>>}
                  /\ get_category_totals(expenses, u, r[1], r[2]) = {<<>>}
                  /\ get_expense_stats(expenses, u, r[1], r[2]) = ZeroStats
            /\ \A y \in ReadYears :
                  /\ get_monthly_totals(expenses, u, y)
                        = [m \in 1 .. 12 |->
                             [month |-> m, total |-> 0, count |-> 0]]
                  /\ \A m \in ReadMonths :
                        get_daily_totals(expenses, u, y, m) = {<<>>}
            /\ \A t \in ReadTerms : search(expenses, u, t) = {<<>>}
            /\ \A c \in CategoryIds :
                  get_category_budget(budgets, u, c) = {Returned(0)}

\* The statistics of a user with stored expenses were asked for while the
\* statement raised, budgets being stored, and the zero record was returned.
WitC20 ==
    /\ call.op = "get_expense_stats" /\ call.fault = "statement_error"
    /\ Matching(expenses, call.user_id, call.start_date, call.end_date, NoId)
          # {}
    /\ budgets # <<>>
    /\ ret = ZeroStats

(***************************************************************************)
(* Properties of the write operations under failure (specification         *)
(* SpecWrite).                                                             *)
(***************************************************************************)
\* C21: when the database fails during a write (no connection, cursor
\* creation fails, or the statement raises), add_expense, update_expense,
\* delete_expense and set_category_budget return an explicit failure value
\* without raising, and the stored expenses and budgets are unchanged.
CexC21 ==
    [][dbFault # "ok" =>
          /\ call'.op \in {"add", "update", "delete"}
                => ~ret'.ok /\ expenses' = expenses /\ budgets' = budgets
          /\ call'.op = "set_category_budget"
                => /\ ret' = Returned(FALSE)
                   /\ expenses' = expenses /\ budgets' = budgets]_vars

(***************************************************************************)
(* The calls that obtain a connection (specification SpecPool).            *)
(***************************************************************************)
PoolFrame == UNCHANGED <<expenseVars, authVars, sessions, store>>

\* execute_query("SELECT * FROM budgets") and, with fetch=False, a
\* statement that changes no row.
ExecuteQuery ==
    \E fetch \in BOOLEAN :
        /\ call' = [op |-> "execute_query", fetch |-> fetch,
                    fault |-> dbFault]
        /\ ret' = IF fetch
                  THEN execute_query(budgets)
                  ELSE Returned(execute_write(0))
        /\ Pool(Acquired, execute_queryClosed)
        /\ UNCHANGED budgets
        /\ PoolFrame

\* execute_many("UPDATE budgets SET amount = %s WHERE id = %s", data_list):
\* True after the commit, False without a connection or after an error.
ExecuteMany ==
    \E data_list \in {<<>>, <<[amount |-> 50000, id |-> 1]>>} :
        /\ call' = [op |-> "execute_many", data_list |-> data_list,
                    fault |-> dbFault]
        /\ ret' = Returned(dbFault = "ok")
        /\ budgets' = IF dbFault = "ok"
                      THEN [i \in DOMAIN budgets |->
                              IF \E k \in DOMAIN data_list :
                                    data_list[k].id = i
                              THEN [budgets[i] EXCEPT
                                      !.amount = data_list[1].amount]
                              ELSE budgets[i]]
                      ELSE budgets
        /\ Pool(Acquired, execute_queryClosed)
        /\ PoolFrame

\* call_procedure of a procedure without result sets: [] or None.
CallProcedure ==
    /\ call' = [op |-> "call_procedure", fault |-> dbFault]
    /\ ret' = execute_query(<<>>)
    /\ Pool(Acquired, execute_queryClosed)
    /\ UNCHANGED budgets
    /\ PoolFrame

\* test_connection: True when a connection was obtained and is connected.
TestConnection ==
    /\ call' = [op |-> "test_connection", fault |-> dbFault]
    /\ ret' = Returned(dbFault \in {"ok", "statement_error"})
    /\ Pool(Acquired, test_connectionClosed)
    /\ UNCHANGED budgets
    /\ PoolFrame

NextPool ==
    \/ DbCondition
    \/ ExecuteQuery
    \/ ExecuteMany
    \/ CallProcedure
    \/ TestConnection
    \/ SetCategoryBudgetStep
    \/ GetCategoryBudget

SpecPool == Init /\ [][NextPool]_vars

\* C22: every connection obtained by execute_query, execute_many,
\* call_procedure, test_connection, set_category_budget or
\* get_category_budget is given back before the call returns or raises, so
\* that no connection is checked out between two operations.
CexC22 == checkedOut = 0

(***************************************************************************)
(* Properties of the budgets of one process (specification SpecBudget).    *)
(***************************************************************************)
\* The amounts and months stored for one user and category.
BudgetsOf(tbl, u, c) ==
    {[amount |-> tbl[i].amount, month |-> tbl[i].month] :
        i \in BudgetIds(tbl, u, c)}

\* C23: after any set_category_budget calls made one after the other,
\* there is at most one budget row for each user and category;
\* get_category_budget returns the amount of that row, which is the amount
\* of the last successful set_category_budget for the pair, and 0 without
\* one; a call leaves the budgets of every other pair, and a failed call
\* those of every pair, as they were.
ThmC23 ==
    /\ [](\A u \in UserIds, c \in CategoryIds :
            /\ Cardinality(BudgetIds(budgets, u, c)) <= 1
            /\ dbFault = "ok" =>
                 get_category_budget(budgets, u, c) =
                    IF BudgetIds(budgets, u, c) = {}
                    THEN {Returned(0)}
                    ELSE {Returned(budgets[i].amount) :
                            i \in BudgetIds(budgets, u, c)})
    /\ []((call.op = "set_category_budget" /\ ret = Returned(TRUE))
            => BudgetsOf(budgets, call.user_id, call.category_id)
                  = {[amount |-> call.amount, month |-> call.month]})
    /\ [][\A u \in UserIds, c \in CategoryIds :
            \/ /\ call'.op = "set_category_budget"
               /\ call'.user_id = u /\ call'.category_id = c
               /\ ret' = Returned(TRUE)
            \/ BudgetsOf(budgets', u, c) = BudgetsOf(budgets, u, c)]_vars

\* The budget of a pair that was stored before another pair's was set
\* again, to another amount than the other pair's.
WitC23 ==
    /\ call.op = "set_category_budget" /\ ret = Returned(TRUE)
    /\ Len(budgets) >= 2
    /\ BudgetIds(budgets, call.user_id, call.category_id) = {1}
    /\ budgets[1].amount = 70000
    /\ budgets[2].amount = 50000

(***************************************************************************)
(* set_category_budget in two processes sharing the database               *)
(* (specification SpecBudgetSessions): the SELECT of one call and its      *)
(* UPDATE or INSERT are two statements, between which the other process    *)
(* may run its own.                                                        *)
(***************************************************************************)
\* set_category_budget up to and including `existing = cursor.fetchone()`.
SessionBudgetSelect(s, user_id, category_id, amount, month) ==
    LET out == set_category_budget(budgets, user_id, category_id, amount,
                                   month)
    IN /\ sessions[s].pc = "idle"
       /\ call' = [op |-> "session_set_category_budget", session |-> s,
                   user_id |-> user_id, category_id |-> category_id,
                   amount |-> amount, month |-> month]
       /\ IF dbFault = "ok"
          THEN /\ sessions' = [sessions EXCEPT
                                 ![s].pc = "budget_write",
                                 ![s].args =
                                     [user_id |-> user_id,
                                      category_id |-> category_id,
                                      amount |-> amount, month |-> month,
                                      existing |->
                                          BudgetIds(budgets, user_id,
                                                    category_id) # {}]]
               /\ Pool(Acquired, 0)
               /\ UNCHANGED ret
          ELSE /\ ret' = out.ret
               /\ Pool(Acquired, budgetClosed)
               /\ UNCHANGED sessions
       /\ UNCHANGED <<expenseVars, authVars, budgets, store>>

\* set_category_budget from `if existing:` on; a statement that raises is
\* handled by the except clause, and the finally clause closes the cursor
\* and the connection.
SessionBudgetWrite(s) ==
    LET a == sessions[s].args
        out == BudgetWrite(budgets, a.existing, a.user_id, a.category_id,
                           a.amount, a.month)
    IN /\ sessions[s].pc = "budget_write"
       /\ call' = [op |-> "session_budget_write", session |-> s]
       /\ IF dbFault = "ok"
          THEN /\ budgets' = out.tbl
               /\ ret' = out.ret
          ELSE /\ ret' = Returned(FALSE)
               /\ UNCHANGED budgets
       /\ sessions' = [sessions EXCEPT ![s] = IdleSession]
       /\ Pool(0, 1)
       /\ UNCHANGED <<expenseVars, authVars, store>>

SessionSetCategoryBudgetStep ==
    \E s \in Sessions, a \in BudgetAmounts :
        \/ SessionBudgetSelect(s, 1, 1, a, 20240301)
        \/ SessionBudgetWrite(s)

NextBudgetSessions == DbCondition \/ SessionSetCategoryBudgetStep

SpecBudgetSessions == Init /\ [][NextBudgetSessions]_vars

\* C24: with the database available, set_category_budget inserts a row and
\* returns True whenever its SELECT found none, whatever the other process
\* stored since, so that two calls for one user and category that both
\* found no row both insert and leave two rows.
ThmC24 ==
    [][\A s \in Sessions :
          (/\ sessions[s].pc = "budget_write"
           /\ ~sessions[s].args.existing
           /\ sessions'[s].pc = "idle"
           /\ dbFault = "ok")
          => /\ ret' = Returned(TRUE)
             /\ Len(budgets') = Len(budgets) + 1
             /\ budgets'[Len(budgets')] =
                   BudgetRow(sessions[s].args.user_id,
                             sessions[s].args.category_id,
                             sessions[s].args.amount,
                             sessions[s].args.month)]_vars

\* Two rows of one user and category, while no call is under way.
WitC24 ==
    /\ \A s \in Sessions : sessions[s].pc = "idle"
    /\ \E i, j \in DOMAIN budgets :
          /\ i # j
          /\ budgets[i].user_id = budgets[j].user_id
          /\ budgets[i].category_id = budgets[j].category_id

(***************************************************************************)
(* Properties of Expense.search (specification SpecRead).                  *)
(***************************************************************************)
\* t occurs in s, letters compared without regard to case.
ContainsIgnoringCase(s, t) ==
    \E k \in 0 .. Len(s) - Len(t) :
        \A j \in 1 .. Len(t) : LowerOf(s[k + j]) = LowerOf(t[j])

\* C25: Expense.search returns exactly the expenses of the user whose
\* description or notes contains the search term, compared without regard
\* to case, the later dates first.
CexC25 ==
    (call.op = "search" /\ call.fault = "ok") =>
        /\ {ret[k].expense_id : k \in DOMAIN ret}
              = {i \in DOMAIN expenses :
                    /\ expenses[i].user_id = call.user_id
                    /\ \/ ContainsIgnoringCase(expenses[i].description,
                                               call.search_term)
                       \/ /\ ~IsNone(expenses[i].notes)
                          /\ ContainsIgnoringCase(expenses[i].notes[1],
                                                  call.search_term)}
        /\ \A k \in 1 .. Len(ret) - 1 :
              ret[k].expense_date >= ret[k + 1].expense_date

(***************************************************************************)
(* Properties of the current user (specification SpecLifecycle).           *)
(***************************************************************************)
\* C26: the current user becomes a user only by a successful login or
\* register and becomes empty only by logout; a failed login or register
\* and change_password leave it as it is, update_profile leaves it the same
\* user (of whom it caches the new name and email); while it is empty,
\* update_profile and change_password return "Not logged in" and leave the
\* stored users as they are.
ThmC26 ==
    [][/\ currentUser'.user_id # currentUser.user_id
            => \/ /\ currentUser' # NoUser
                  /\ call'.op \in {"login", "register"}
                  /\ ret'.ok /\ ret'.id = currentUser'.user_id
               \/ currentUser' = NoUser /\ call'.op = "logout"
       /\ (call'.op \in {"login", "register"} /\ ret'.ok)
            => currentUser' # NoUser
       /\ call'.op = "logout" => currentUser' = NoUser
       /\ (call'.op \in {"login", "register"} /\ ~ret'.ok)
            => currentUser' = currentUser
       /\ call'.op = "change_password" => currentUser' = currentUser
       /\ call'.op = "update_profile"
            => /\ currentUser'.user_id = currentUser.user_id
               /\ currentUser # NoUser
                    => currentUser'.username = currentUser.username
       /\ (call'.op \in {"update_profile", "change_password"}
           /\ currentUser = NoUser)
            => /\ ret' = Ret(FALSE, "Not logged in", NoId)
               /\ users' = users]_vars

\* With users stored and nobody logged in after a logout, a profile update
\* was asked for and refused.
WitC26 ==
    /\ call.op = "update_profile" /\ call.email # <<>>
    /\ ret = Ret(FALSE, "Not logged in", NoId)
    /\ currentUser = NoUser
    /\ Len(users) = 2

(***************************************************************************)
(* ExpenseController.get_dashboard_data (specification SpecDashboard).     *)
(* `today` is datetime.now() as a date.                                    *)
(***************************************************************************)
\* today.replace(day=1)
MonthStart(today) == (today \div 100) * 100 + 1

\* The dashboard's month_end: the first day of the month after today's.
NextMonthStart(today) ==
    IF MonthOf(today) = 12
    THEN (YearOf(today) + 1) * 10000 + 101
    ELSE YearOf(today) * 10000 + (MonthOf(today) + 1) * 100 + 1

\* get_dashboard_data: the statistics and category totals of
\* [month_start, month_end], today's total, the year's total, the five most
\* recent expenses and the year's monthly totals.
get_dashboard_data(tbl, user_id, today) ==
    LET month_start == MonthStart(today)
        month_end == NextMonthStart(today)
        monthly_stats == get_expense_stats(tbl, user_id, month_start,
                                           month_end)
        today_total == get_total_expenses(tbl, user_id, today, today, NoId)
        yearly_total == get_total_expenses(tbl, user_id,
                                           YearOf(today) * 10000 + 101,
                                           YearOf(today) * 10000 + 1231,
                                           NoId)
    IN {[monthly_total |-> monthly_stats.total,
         monthly_average |-> monthly_stats.average,
         monthly_count |-> monthly_stats.count,
         today_total |-> today_total,
         yearly_total |-> yearly_total,
         category_totals |-> category_totals,
         recent_expenses |-> recent_expenses,
         monthly_trend |-> get_monthly_totals(tbl, user_id, YearOf(today)),
         current_month |-> <<MonthOf(today), YearOf(today)>>] :
          category_totals \in get_category_totals(tbl, user_id, month_start,
                                                  month_end),
          recent_expenses \in get_user_expenses(tbl, user_id, NoDate, NoDate,
                                                NoId, 5, 0)}

DashboardRows ==
    (1 :> ExpenseRow(1, 1, 10000, Tea, 20240215, Cash, NoneStr))
    @@ (2 :> ExpenseRow(1, 2, 2500, Bus, 20240301, Upi, NoneStr))
    @@ (3 :> ExpenseRow(1, 1, 300, Tea, 20240101, Cash, NoneStr))
    @@ (4 :> ExpenseRow(1, 1, 4000, Bus, 20231231, Cash, NoneStr))
    @@ (5 :> ExpenseRow(2, 2, 70, Tea, 20240215, Cash, NoneStr))
DashboardTables ==
    {[i \in ids |-> DashboardRows[i]] : ids \in SUBSET DOMAIN DashboardRows}
DashboardDays == {20240215, 20240229, 20231231}

InitDashboard ==
    /\ expenses \in DashboardTables
    /\ nextExpenseId = Cardinality(DOMAIN DashboardRows) + 1
    /\ users = <<>>
    /\ nextUserId = 1
    /\ currentUser = NoUser
    /\ call = [op |-> "none"]
    /\ ret = Ret(TRUE, "", NoId)
    /\ dbFault = "ok"
    /\ checkedOut = 0
    /\ store = <<>>
    /\ sessions = [s \in Sessions |-> IdleSession]
    /\ budgets = <<>>

GetDashboardData ==
    \E u \in UserIds, today \in DashboardDays :
        /\ call' = [op |-> "get_dashboard_data", user_id |-> u,
                    today |-> today, fault |-> dbFault]
        /\ ret' \in get_dashboard_data(expenses, u, today)
        /\ ReadFrame

NextDashboard == DbCondition \/ GetDashboardData

SpecDashboard == InitDashboard /\ [][NextDashboard]_vars

\* The user's expenses dated in the calendar month of `today`.
InMonthOf(tbl, user_id, today) ==
    {i \in DOMAIN tbl : /\ tbl[i].user_id = user_id
                        /\ YearOf(tbl[i].expense_date) = YearOf(today)
                        /\ MonthOf(tbl[i].expense_date) = MonthOf(today)}

\* C27: the monthly total, average and count and the category totals of
\* get_dashboard_data are those of the user's expenses dated in the current
\* calendar month, an expense dated on the first day of the next month not
\* being counted.
CexC27 ==
    (call.op = "get_dashboard_data" /\ call.fault = "ok") =>
        LET ids == InMonthOf(expenses, call.user_id, call.today)
        IN /\ ret.monthly_total = SumAmount(expenses, ids)
           /\ ret.monthly_count = Cardinality(ids)
           /\ ret.monthly_average = AvgAmount(expenses, ids)
           /\ \A k \in DOMAIN ret.category_totals :
                 LET row == ret.category_totals[k]
                     inCat == {i \in ids :
                                 expenses[i].category_id = row.category_id}
                 IN /\ row.total = SumAmount(expenses, inCat)
                    /\ row.count = Cardinality(inCat)

(***************************************************************************)
(* The mobile application (ExpenseTrackerMobile/main.py): its screens run  *)
(* their own SQL on a connection of their own, and App.current_user is     *)
(* the row of the user logged in.                                          *)
(***************************************************************************)
RECURSIVE LStrip(_)
LStrip(s) == IF s # <<>> /\ s[1] = " " THEN LStrip(Tail(s)) ELSE s
RECURSIVE RStrip(_)
RStrip(s) ==
    IF s # <<>> /\ s[Len(s)] = " "
    THEN RStrip(SubSeq(s, 1, Len(s) - 1))
    ELSE s
\* str.strip()
strip(s) == RStrip(LStrip(s))

\* check_werkzeug_hash: a werkzeug hash reads method$salt$digest, written
\* here as "$$" before the password it was made of; any other stored
\* value gives False.
check_werkzeug_hash(stored, password) == stored = <<"$", "$">> \o password

\* `stored_pass == hash_password(password) or stored_pass == password or
\* self.check_werkzeug_hash(stored_pass, password)`
PasswordAccepted(stored_pass, password) ==
    \/ stored_pass = hash_password(password)
    \/ stored_pass = password
    \/ check_werkzeug_hash(stored_pass, password)

\* SELECT * FROM users WHERE username = %s OR email = %s; fetchone.
MobileUserRows(tbl, username) ==
    {i \in DOMAIN tbl : tbl[i].username = username \/ tbl[i].email = username}

\* LoginScreen.login: what it shows or raises, the current user and the
\* saved login it leaves.
LoginScreen_login(tbl, cur, saved, username_text, password_text, remember_checked) ==
    LET username == strip(username_text)
        password == strip(password_text)
        found == MobileUserRows(tbl, username)
        i == CHOOSE k \in found : \A m \in found : k <= m
        same == [ret |-> Returned("Invalid username or password"),
                 user |-> cur, store |-> saved]
    IN IF username = <<>> \/ password = <<>>
       THEN [same EXCEPT !.ret = Returned("Please enter username and password")]
       ELSE IF dbFault = "no_connection"
       THEN [same EXCEPT !.ret = Returned("Could not connect to database")]
       ELSE IF dbFault # "ok"
       THEN [same EXCEPT !.ret = Raised("Error")]
       ELSE IF found # {} /\ PasswordAccepted(tbl[i].password, password)
       THEN [ret |-> Returned("dashboard"),
             user |-> UserObject(i, tbl[i].username, tbl[i].email,
                                 tbl[i].full_name),
             store |-> IF remember_checked
                       THEN <<[username |-> username, password |-> password]>>
                       ELSE <<>>]
       ELSE same

MobileLogin(username_text, password_text, remember_checked) ==
    LET out == LoginScreen_login(users, currentUser, store, username_text,
                                 password_text, remember_checked)
    IN /\ call' = [op |-> "mobile_login", username |-> username_text,
                   password |-> password_text, fault |-> dbFault]
       /\ ret' = out.ret
       /\ currentUser' = out.user
       /\ store' = out.store
       /\ UNCHANGED <<expenseVars, users, nextUserId, dbFault, sessions,
                      budgets, checkedOut>>

\* navigate('profile'): app.current_user = None and the login screen.
MobileLogout ==
    /\ call' = [op |-> "mobile_logout"]
    /\ ret' = Returned("login")
    /\ currentUser' = NoUser
    /\ UNCHANGED <<expenseVars, users, nextUserId, envVars>>

\* f"{x:.0f}" of a value held in 1/scale units: the nearest whole number,
\* a half going to the even one.
RoundUnits(v, scale) ==
    LET q == v \div scale
        r == v % scale
    IN IF 2 * r > scale \/ (2 * r = scale /\ q % 2 = 1) THEN q + 1 ELSE q

\* WHERE user_id = %s AND MONTH(expense_date) = MONTH(CURRENT_DATE()), with
\* the year compared as well.
InMonthAndYear(tbl, user_id, today) ==
    {i \in DOMAIN tbl : /\ tbl[i].user_id = user_id
                        /\ MonthOf(tbl[i].expense_date) = MonthOf(today)
                        /\ YearOf(tbl[i].expense_date) = YearOf(today)}

\* WHERE user_id = %s AND MONTH(expense_date) = MONTH(CURRENT_DATE())
InCurrentMonth(tbl, user_id, today) ==
    {i \in DOMAIN tbl : /\ tbl[i].user_id = user_id
                        /\ MonthOf(tbl[i].expense_date) = MonthOf(today)}

NoFigures == [shown |-> FALSE]

\* The most recent five expenses of the dashboard: ORDER BY e.expense_date
\* DESC, e.created_at DESC LIMIT 5.
RecentRows(tbl, user_id) ==
    LET ids == {i \in DOMAIN tbl : tbl[i].user_id = user_id}
        date == [i \in ids |-> tbl[i].expense_date]
    IN {[k \in 1 .. (IF Len(q) < 5 THEN Len(q) ELSE 5) |-> q[k]] :
          q \in Orders(ids, date, TRUE)}

\* DashboardScreen.load_data: nothing without a current user or a
\* connection; otherwise the four stat cards and the list of recent
\* expenses.
DashboardScreen_load_data(tbl, cur, today) ==
    LET ids == InCurrentMonth(tbl, cur.user_id, today)
    IN IF cur = NoUser \/ dbFault = "no_connection"
       THEN {Returned(NoFigures)}
       ELSE IF dbFault # "ok"
       THEN {Raised("Error")}
       ELSE {Returned([shown |-> TRUE,
                       stat_total |-> RoundUnits(SumAmount(tbl, ids), 100),
                       stat_count |-> Cardinality(ids),
                       stat_avg |-> RoundUnits(AvgAmount(tbl, ids), 1000000),
                       stat_max |-> RoundUnits(MaxAmount(tbl, ids), 100),
                       expenses_list |-> recent]) :
               recent \in RecentRows(tbl, cur.user_id)}

DashboardLoadData(today) ==
    /\ call' = [op |-> "dashboard_load_data", today |-> today,
                fault |-> dbFault]
    /\ ret' \in DashboardScreen_load_data(expenses, currentUser, today)
    /\ UNCHANGED <<expenseVars, authVars, envVars>>

\* The category rows of the reports screen: JOIN categories, GROUP BY
\* c.category_id, ORDER BY total DESC.
ReportRows(tbl, user_id, today) ==
    LET ids == InCurrentMonth(tbl, user_id, today)
        cats == {tbl[i].category_id : i \in ids} \cap CategoryIds
        row(c) == [category_id |-> c,
                   total |-> SumAmount(tbl, {i \in ids :
                                               tbl[i].category_id = c})]
        total == [c \in cats |-> row(c).total]
    IN {[k \in DOMAIN q |-> row(q[k])] : q \in Orders(cats, total, TRUE)}

\* ReportsScreen.load_data: 'Total This Month' and the category breakdown.
ReportsScreen_load_data(tbl, cur, today) ==
    IF cur = NoUser \/ dbFault = "no_connection"
    THEN {Returned(NoFigures)}
    ELSE IF dbFault # "ok"
    THEN {Raised("Error")}
    ELSE {Returned([shown |-> TRUE,
                    total |-> RoundUnits(SumTotals(categories), 100),
                    categories |-> categories]) :
            categories \in ReportRows(tbl, cur.user_id, today)}

ReportsLoadData(today) ==
    /\ call' = [op |-> "reports_load_data", today |-> today,
                fault |-> dbFault]
    /\ ret' \in ReportsScreen_load_data(expenses, currentUser, today)
    /\ UNCHANGED <<expenseVars, authVars, envVars>>

\* The categories the add-expense screen loaded into its spinner.
SelectCategory == <<"S","e","l","e","c","t"," ","c","a","t","e","g","o","r","y",
                    ".",".",".">>
Food == <<"F","o","o","d">>
Travel == <<"T","r","a","v","e","l">>
SpinnerCategories == (1 :> Food) @@ (2 :> Travel)

\* `if not amount or amount == '0.00'`, `if category_name == 'Select
\* category...'`: "" when save_expense goes on.
SaveRejection(amount_text, category_name) ==
    IF strip(amount_text) = <<>> \/ strip(amount_text) = <<"0",".","0","0">>
    THEN "Please enter an amount"
    ELSE IF category_name = SelectCategory
    THEN "Please select a category"
    ELSE ""

\* AddExpenseScreen.save_expense: the popup or the screen it shows, or what
\* it raises, and the expenses table it leaves.  Without a connection it
\* does nothing.
AddExpenseScreen_save_expense(tbl, id, cur, amount_text, category_name, description_text, payment, today) ==
    LET amount == strip(amount_text)
        rej == SaveRejection(amount_text, category_name)
        category_id == CHOOSE c \in DOMAIN SpinnerCategories :
                          SpinnerCategories[c] = category_name
        same == [ret |-> Returned(rej), tbl |-> tbl]
    IN IF rej # "" THEN same
       ELSE IF cur = NoUser
       THEN [same EXCEPT !.ret = Raised("AttributeError")]
       ELSE IF dbFault = "no_connection"
       THEN [same EXCEPT !.ret = Returned("")]
       ELSE IF dbFault = "cursor_error"
       THEN [same EXCEPT !.ret = Raised("Error")]
       ELSE IF ParseFloat(amount).err # ""
       THEN [same EXCEPT !.ret = Raised(ParseFloat(amount).err)]
       ELSE IF dbFault = "statement_error"
       THEN [same EXCEPT !.ret = Raised("Error")]
       ELSE [ret |-> Returned("Expense saved!"),
             tbl |-> InsertExpense(tbl, id,
                        ExpenseRow(cur.user_id, category_id,
                                   ParseFloat(amount).val,
                                   strip(description_text), today, payment,
                                   NoneStr))]

\* The stored rows the mobile screens start from.
MobileRows ==
    (1 :> ExpenseRow(1, 1, 10000, Tea, 20240215, Cash, NoneStr))
    @@ (2 :> ExpenseRow(1, 2, 2550, Bus, 20230210, Upi, NoneStr))
    @@ (3 :> ExpenseRow(2, 1, 70, Tea, 20240215, Cash, NoneStr))
MobileTables ==
    {[i \in ids |-> MobileRows[i]] : ids \in SUBSET DOMAIN MobileRows}
MobileFirstId == Cardinality(DOMAIN MobileRows) + 1

\* The rows the screen may add in one run of the model.
MaxSaved == 1

SaveExpense(amount_text, category_name, description_text, payment, today) ==
    LET out == AddExpenseScreen_save_expense(
                  expenses, nextExpenseId, currentUser, amount_text,
                  category_name, description_text, payment, today)
    IN /\ nextExpenseId - MobileFirstId < MaxSaved
       /\ call' = [op |-> "save_expense", amount |-> amount_text,
                   category |-> category_name, today |-> today,
                   fault |-> dbFault]
       /\ ret' = out.ret
       /\ expenses' = out.tbl
       /\ nextExpenseId' = IF out.tbl = expenses THEN nextExpenseId
                           ELSE nextExpenseId + 1
       /\ UNCHANGED <<authVars, envVars>>

(***************************************************************************)
(* The mobile screens on stored users and expenses (specification          *)
(* SpecMobile).                                                            *)
(***************************************************************************)
MobileUsers ==
    (1 :> [username |-> <<"b","o","b">>, email |-> <<"b","@","x",".","i","o">>,
           password |-> hash_password(SessionPassword),
           full_name |-> <<"B">>, is_active |-> TRUE])
    @@ (2 :> [username |-> <<"a","m","y","_","1">>,
              email |-> <<"a",".","m","@","y","-","z",".","o","r","g">>,
              password |-> hash_password(OtherPassword),
              full_name |-> <<"A">>, is_active |-> FALSE])
MobileNames ==
    {<<>>, <<"b","o","b">>, <<" ","b","o","b">>, <<"a","m","y","_","1">>}
MobilePasswords ==
    {SessionPassword, OtherPassword, hash_password(SessionPassword)}
MobileDays == {20240215}
SaveAmounts ==
    {<<>>, <<"0",".","0","0">>, <<"0">>, <<"-","5">>, <<"5">>,
     <<"a","b","c">>}

InitMobile ==
    /\ expenses \in MobileTables
    /\ nextExpenseId = MobileFirstId
    /\ users = MobileUsers
    /\ nextUserId = Len(MobileUsers) + 1
    /\ currentUser = NoUser
    /\ call = [op |-> "none"]
    /\ ret = Ret(TRUE, "", NoId)
    /\ dbFault = "ok"
    /\ checkedOut = 0
    /\ store = <<>>
    /\ sessions = [s \in Sessions |-> IdleSession]
    /\ budgets = <<>>

MobileLoginStep ==
    \E un \in MobileNames, pw \in MobilePasswords, r \in BOOLEAN :
        MobileLogin(un, pw, r)
DashboardLoadDataStep == \E today \in MobileDays : DashboardLoadData(today)
ReportsLoadDataStep == \E today \in MobileDays : ReportsLoadData(today)
SaveExpenseStep ==
    \E a \in SaveAmounts, c \in {SelectCategory, Food}, today \in MobileDays :
        SaveExpense(a, c, Tea, Cash, today)

NextMobile ==
    \/ DbCondition
    \/ MobileLoginStep
    \/ MobileLogout
    \/ DashboardLoadDataStep
    \/ ReportsLoadDataStep
    \/ SaveExpenseStep

SpecMobile == InitMobile /\ [][NextMobile]_vars

\* C28: the mobile login makes a user the current user only when the
\* password entered verifies against the stored hash of that user and the
\* user is active.
CexC28 ==
    (call.op = "mobile_login" /\ call.fault = "ok"
     /\ ret = Returned("dashboard")) =>
        \E i \in MobileUserRows(users, strip(call.username)) :
            /\ users[i].is_active
            /\ verify_password(strip(call.password), users[i].password)
            /\ currentUser.user_id = i

\* C29: the current-month figures of the mobile dashboard and reports
\* screens are those of the user's expenses dated in the current month of
\* the current year.
CexC29 ==
    (call.op \in {"dashboard_load_data", "reports_load_data"}
     /\ call.fault = "ok" /\ currentUser # NoUser) =>
        LET ids == InMonthAndYear(expenses, currentUser.user_id, call.today)
            figures == ret.value
        IN IF call.op = "dashboard_load_data"
           THEN /\ figures.stat_count = Cardinality(ids)
                /\ figures.stat_total = RoundUnits(SumAmount(expenses, ids),
                                                   100)
                /\ figures.stat_max = RoundUnits(MaxAmount(expenses, ids),
                                                 100)
           ELSE /\ figures.total = RoundUnits(SumAmount(expenses, ids), 100)
                /\ \A k \in DOMAIN figures.categories :
                      figures.categories[k].total =
                         SumAmount(expenses,
                                   {i \in ids :
                                      expenses[i].category_id =
                                         figures.categories[k].category_id})

\* C30: every stored expense has an amount greater than 0, the mobile
\* add-expense screen refusing an amount that is not.
CexC30 == \A i \in DOMAIN expenses : expenses[i].amount > 0

====
